---- MODULE Spec2Model ----
(***************************************************************************)
(* The course dependency graph of GradUWate-backend: the Neo4j mutations   *)
(* of app/db/neo4j/graph_adapter.py, the ingestion of app/db/bootstrap.py  *)
(* and the query endpoints of app/api/v1/endpoints/course.py.              *)
(***************************************************************************)
EXTENDS Integers, Sequences, FiniteSets, Bags, TLC

(***************************************************************************)
(* Bounds of the model.                                                    *)
(***************************************************************************)
\* group ids "<course_id>#g<n>" range over n in 1..MaxGroups
MaxGroups == 1
\* a batch handed to bootstrap_from_parsed_records holds at most MaxRecords records
MaxRecords == 2

\* Python's None / a null property
None == "None"

Subjects == {"CS"}
Numbers == {"484", "486"}
Titles == {"Intro", "Topics"}
Levels == {None}

VARIABLES
  driver,   \* graph_adapter._driver: "None"; "connecting", the driver object a
            \* call of init_neo4j has assigned while that call is still in
            \* its loop; "open"; "closed"
  nodes,    \* the Course nodes of the store: id -> [code, title, level]
  edges,    \* the relationships of the store: a bag of <<start, end, type, group_id>>
  inits,    \* the number of calls of init_neo4j that are in their loop
  boot,     \* bootstrap_from_parsed_records in flight: its position, what is left
            \* to do, and whether the driver it obtained is still _driver
  resp      \* the call or request in flight, or what the last call returned or raised

vars == <<driver, inits, nodes, edges, boot, resp>>

(***************************************************************************)
(* Identifiers.                                                            *)
(***************************************************************************)
\* bootstrap._course_pk
_course_pk(subject, number) == subject \o "-" \o number

\* the code a record carries: f"{subject} {number}" (bootstrap._normalize)
CodeOf(subject, number) == subject \o " " \o number

\* A code found by _codes_in is f"{a} {b}" for the two groups of COURSE_CODE_RE;
\* it is kept here as the pair <<a, b>>.  _id_from_code splits it at the space
\* and joins the two parts with a hyphen.
_id_from_code(code) == code[1] \o "-" \o code[2]

Codes == Subjects \X Numbers
Ids == {_course_pk(c[1], c[2]) : c \in Codes}

\* f"{course_id}#g{gi}"
Digit == <<"1", "2", "3", "4", "5", "6", "7", "8", "9">>
GroupId(course_id, gi) == course_id \o "#g" \o Digit[gi]

(***************************************************************************)
(* The store.  One Cypher statement run through session.run is one         *)
(* auto-commit transaction: it is applied whole or not at all.             *)
(***************************************************************************)
EmptyGraph == [nodes |-> <<>>, edges |-> EmptyBag]

Graph == [nodes |-> nodes, edges |-> edges]

Rel(start, end, type, group_id) == <<start, end, type, group_id>>

\* MERGE (c:Course {id:$id}) with SET in place of ON CREATE SET
MergeNodeSet(N, id) ==
  [x \in DOMAIN N \cup {id} |->
     IF x = id THEN [code |-> id, title |-> id, level |-> None] ELSE N[x]]

\* MERGE (c:Course {id:$id}) ON CREATE SET c.code = $id, c.title = $id
MergeNode(N, id) ==
  IF id \in DOMAIN N THEN N
  ELSE [x \in DOMAIN N \cup {id} |->
          IF x = id THEN [code |-> id, title |-> id, level |-> None] ELSE N[x]]

\* CREATE (a)-[:T {group_id}]->(b): a new relationship whatever exists
CreateRel(E, r) == E (+) SetToBag({r})

\* MERGE (a)-[:T {group_id}]->(b): matches an existing relationship or creates one
MergeRel(E, r) == IF BagIn(r, E) THEN E ELSE E (+) SetToBag({r})

\* upsert_course_node with ON CREATE SET in place of SET
UpsertCourseNodeTxOnCreate(G, id, code, title, level) ==
  IF id \in DOMAIN G.nodes THEN G
  ELSE [nodes |-> [MergeNode(G.nodes, id) EXCEPT
                     ![id] = [code |-> code, title |-> title, level |-> level]],
        edges |-> G.edges]

\* upsert_course_node: MERGE (c:Course {id}) SET c.code, c.title, c.level
UpsertCourseNodeTx(G, id, code, title, level) ==
  LET N == MergeNode(G.nodes, id)
  IN  [nodes |-> [N EXCEPT ![id] = [code |-> code, title |-> title, level |-> level]],
       edges |-> G.edges]

\* merge_prereq_edge with the second MERGE forgotten
MergePrereqEdgeTxNoInverse(G, to_id, from_id, group_id) ==
  [nodes |-> MergeNode(MergeNode(G.nodes, to_id), from_id),
   edges |-> MergeRel(G.edges, Rel(to_id, from_id, "REQUIRES", group_id))]

\* merge_prereq_edge: both nodes merged, then REQUIRES and UNLOCKS merged
MergePrereqEdgeTx(G, to_id, from_id, group_id) ==
  [nodes |-> MergeNode(MergeNode(G.nodes, to_id), from_id),
   edges |-> MergeRel(MergeRel(G.edges, Rel(to_id, from_id, "REQUIRES", group_id)),
                      Rel(from_id, to_id, "UNLOCKS", group_id))]

\* merge_antireq_edge: both nodes merged, then the one relationship a -> b
MergeAntireqEdgeTx(G, a_id, b_id) ==
  [nodes |-> MergeNode(MergeNode(G.nodes, a_id), b_id),
   edges |-> MergeRel(G.edges, Rel(a_id, b_id, "ANTIREQ", None))]

\* A mutation as a value, and what it does to a graph
Upsert(id, code, title, level) ==
  [code |-> code, id |-> id, title |-> title, level |-> level, op |-> "upsert_course_node"]
Prereq(to_id, from_id, group_id) ==
  [group_id |-> group_id, to_id |-> to_id, from_id |-> from_id, op |-> "merge_prereq_edge"]
Antireq(a_id, b_id) ==
  [a_id |-> a_id, b_id |-> b_id, op |-> "merge_antireq_edge"]

Apply(m, G) ==
  CASE m.op = "upsert_course_node" -> UpsertCourseNodeTx(G, m.id, m.code, m.title, m.level)
    [] m.op = "merge_prereq_edge"  -> MergePrereqEdgeTx(G, m.to_id, m.from_id, m.group_id)
    [] m.op = "merge_antireq_edge" -> MergeAntireqEdgeTx(G, m.a_id, m.b_id)

RECURSIVE ApplyAll(_, _)
ApplyAll(ms, G) == IF ms = <<>> THEN G ELSE ApplyAll(Tail(ms), Apply(Head(ms), G))

\* The mutations the callers of this model issue directly
UpsertCalls ==
  {Upsert(_course_pk(c[1], c[2]), CodeOf(c[1], c[2]), t, l) : c \in Codes, t \in Titles, l \in Levels}
PrereqCalls == {Prereq(to, from, GroupId(to, gi)) : to \in Ids, from \in Ids, gi \in 1..MaxGroups}
AntireqCalls == {Antireq(a, b) : a \in Ids, b \in Ids}
Mutations == UpsertCalls \cup PrereqCalls \cup AntireqCalls

(***************************************************************************)
(* The driver.                                                             *)
(***************************************************************************)
\* A caller takes the driver when it makes its call; the statement of the
\* call runs when the server gets to it, on the driver object the caller took,
\* whatever _driver has been assigned since.  The server may be unreachable,
\* and a driver object that was closed raises or reconnects depending on the
\* neo4j package installed: a statement sent through a driver runs or raises.
\* boot.shared: the driver object bootstrap_from_parsed_records obtained is
\* the one _driver refers to.
Idle == [pc |-> "idle", pending |-> <<>>, shared |-> FALSE]
NoResp == [op |-> "none"]

\* resp keeps the last call made, and the call or request while one is in
\* flight: a call made by another task meanwhile leaves it in its place
Note(r) == IF resp.op = "request" THEN resp ELSE r

NoRequest == resp.op \notin {"request", "response"}
Requested(call) == resp.op = "request" /\ resp.call = call

Init ==
  /\ driver = "None"
  /\ inits = 0
  /\ nodes = <<>>
  /\ edges = EmptyBag
  /\ boot = Idle
  /\ resp = NoResp

\* at most MaxInits calls of init_neo4j are in their loop at a time
MaxInits == 2

\* init_neo4j is called with _driver None (l.16): it enters its loop and
\* assigns a driver object to _driver (l.24) before anything is awaited
InitAssign ==
  /\ driver = "None"
  /\ inits < MaxInits
  /\ driver' = "connecting"
  /\ inits' = inits + 1
  /\ resp' = Note([op |-> "init_neo4j", step |-> "assigned"])
  /\ UNCHANGED <<nodes, edges>>

\* init_neo4j, l.36-40 and l.22-24: an attempt has failed, and after the
\* sleep the loop assigns a new driver object, whatever _driver is by then
InitRetry ==
  /\ inits > 0
  /\ driver' = "connecting"
  /\ resp' = Note([op |-> "init_neo4j", step |-> "retried"])
  /\ UNCHANGED <<inits, nodes, edges>>

\* init_neo4j, l.26-37: the constraint and the index are created, it returns.
\* _driver is not assigned: it is the open driver if it is still the object
\* this call assigned, and what another call made of it otherwise
InitReturn ==
  /\ inits > 0
  /\ driver' \in (IF driver # "connecting" THEN {driver}
                  ELSE IF inits = 1 THEN {"open"} ELSE {"open", "connecting"})
  /\ inits' = inits - 1
  /\ resp' = Note([op |-> "init_neo4j", step |-> "returned"])
  /\ UNCHANGED <<nodes, edges>>

\* init_neo4j, l.22 and l.41: the deadline has passed, _driver is set to None
\* whatever it is
InitGiveUp ==
  /\ inits > 0
  /\ driver' = "None"
  /\ inits' = inits - 1
  /\ resp' = Note([op |-> "init_neo4j", step |-> "gave up"])
  /\ UNCHANGED <<nodes, edges>>

\* init_neo4j called directly; other calls run between its steps.  Once
\* _driver is assigned, the driver object bootstrap_from_parsed_records holds,
\* if it holds one, is not the one _driver refers to any more
InitNeo4j ==
  \/ InitAssign /\ boot' = [boot EXCEPT !.shared = FALSE]
  \/ InitRetry /\ boot' = [boot EXCEPT !.shared = FALSE]
  \/ InitReturn /\ UNCHANGED boot
  \/ InitGiveUp /\ boot' = [boot EXCEPT !.shared = FALSE]

\* close_neo4j: the driver object is closed and _driver is set to None
CloseNeo4j ==
  /\ driver' = "None"
  /\ boot' = [boot EXCEPT !.shared = FALSE]
  /\ resp' = Note([op |-> "close_neo4j"])
  /\ UNCHANGED <<inits, nodes, edges>>

\* A direct call of upsert_course_node, merge_prereq_edge or merge_antireq_edge
\* with the shared driver, up to its await: without a driver driver.session()
\* raises AttributeError; with one the statement is sent, and the call is in
\* flight until the statement has run
MutateCall(m) ==
  /\ NoRequest
  /\ resp' = IF driver = "None" THEN [op |-> m.op, raised |-> TRUE]
             ELSE [op |-> "request", call |-> m.op, args |-> m]
  /\ UNCHANGED <<driver, inits, nodes, edges, boot>>

\* await s.run(...) of the call in flight: the statement commits, or it
\* raises, whatever _driver is by now
MutateRun(op, ok) ==
  /\ Requested(op)
  /\ LET G == IF ok THEN Apply(resp.args, Graph) ELSE Graph
     IN  /\ nodes' = G.nodes
         /\ edges' = G.edges
  /\ resp' = [op |-> op, raised |-> ~ok]
  /\ UNCHANGED <<driver, inits, boot>>

UpsertCourseNode ==
  \/ \E m \in UpsertCalls : MutateCall(m)
  \/ \E ok \in BOOLEAN : MutateRun("upsert_course_node", ok)
MergePrereqEdge ==
  \/ \E m \in PrereqCalls : MutateCall(m)
  \/ \E ok \in BOOLEAN : MutateRun("merge_prereq_edge", ok)
MergeAntireqEdge ==
  \/ \E m \in AntireqCalls : MutateCall(m)
  \/ \E ok \in BOOLEAN : MutateRun("merge_antireq_edge", ok)

(***************************************************************************)
(* Ingestion: bootstrap_from_parsed_records.  A record is kept with the    *)
(* constraint set extract_constraints returns for its requirements text:   *)
(* prereq_groups, a list of sorted duplicate-free lists of codes, and      *)
(* antireqs, a sorted duplicate-free list of codes.                        *)
(***************************************************************************)
CodeOrder == <<<<"CS", "484">>, <<"CS", "486">>>>

\* sorted(set(codes)) for a set of codes
RECURSIVE SortedFrom(_, _)
SortedFrom(S, i) ==
  IF i > Len(CodeOrder) THEN <<>>
  ELSE (IF CodeOrder[i] \in S THEN <<CodeOrder[i]>> ELSE <<>>) \o SortedFrom(S, i + 1)
Sorted(S) == SortedFrom(S, 1)

SeqsUpTo(S, n) == UNION {[1..k -> S] : k \in 0..n}

OrGroups == {Sorted(S) : S \in SUBSET Codes \ {{}}}
AntireqLists == {Sorted(S) : S \in {T \in SUBSET Codes : Cardinality(T) <= 1}}

\* bootstrap._normalize, with the parsed requirements in place of the text
Records ==
  [subject : Subjects, number : Numbers, title : Titles,
   prereq_groups : SeqsUpTo(OrGroups, MaxGroups), antireqs : AntireqLists]
Batches == SeqsUpTo(Records, MaxRecords)

RecId(r) == _course_pk(r.subject, r.number)

\* the "nodes" loop of bootstrap_from_parsed_records
RECURSIVE NodeCalls(_)
NodeCalls(records) ==
  IF records = <<>> THEN <<>>
  ELSE LET r == Head(records)
       IN  <<Upsert(RecId(r), CodeOf(r.subject, r.number), r.title, None)>>
             \o NodeCalls(Tail(records))

\* for code in group: merge_prereq_edge(to_id=course_id, from_id=_id_from_code(code), group_id=gid)
RECURSIVE GroupCalls(_, _, _)
GroupCalls(course_id, gid, group) ==
  IF group = <<>> THEN <<>>
  ELSE <<Prereq(course_id, _id_from_code(Head(group)), gid)>>
         \o GroupCalls(course_id, gid, Tail(group))

\* for gi, group in enumerate(prereq_groups, start=1)
RECURSIVE PrereqGroupCalls(_, _, _)
PrereqGroupCalls(course_id, groups, gi) ==
  IF gi > Len(groups) THEN <<>>
  ELSE GroupCalls(course_id, GroupId(course_id, gi), groups[gi])
         \o PrereqGroupCalls(course_id, groups, gi + 1)

\* the two calls per antirequisite, one for each direction
RECURSIVE AntireqListCalls(_, _)
AntireqListCalls(course_id, codes) ==
  IF codes = <<>> THEN <<>>
  ELSE LET other == _id_from_code(Head(codes))
       IN  <<Antireq(course_id, other), Antireq(other, course_id)>>
             \o AntireqListCalls(course_id, Tail(codes))

\* the "edges" loop of bootstrap_from_parsed_records
RECURSIVE EdgeCalls(_)
EdgeCalls(records) ==
  IF records = <<>> THEN <<>>
  ELSE LET r == Head(records)
       IN  PrereqGroupCalls(RecId(r), r.prereq_groups, 1)
             \o AntireqListCalls(RecId(r), r.antireqs)
             \o EdgeCalls(Tail(records))

\* every backend call of one bootstrap_from_parsed_records, in the order of the code
BatchMutations(records) == NodeCalls(records) \o EdgeCalls(records)

\* driver = get_neo4j(), then the calls are made one at a time with that
\* driver object
BootstrapStart(batch) ==
  /\ boot.pc = "idle"
  /\ driver # "None"
  /\ boot' = [boot EXCEPT !.pc = "run", !.pending = BatchMutations(batch), !.shared = TRUE]
  /\ resp' = Note([op |-> "bootstrap", step |-> "start"])
  /\ UNCHANGED <<driver, inits, nodes, edges>>

\* get_neo4j() without a driver raises before anything is written
BootstrapNoDriver ==
  /\ boot.pc = "idle"
  /\ driver = "None"
  /\ boot' = [boot EXCEPT !.pc = "raised", !.pending = <<>>]
  /\ resp' = Note([op |-> "bootstrap", step |-> "get_neo4j raised"])
  /\ UNCHANGED <<driver, inits, nodes, edges>>

\* the next backend call, made with the driver object obtained at the start:
\* it commits, or it raises and the loop is left
BootstrapCall(ok) ==
  /\ boot.pc = "run"
  /\ boot.pending # <<>>
  /\ LET G == IF ok THEN Apply(Head(boot.pending), Graph) ELSE Graph
     IN  /\ nodes' = G.nodes
         /\ edges' = G.edges
  /\ boot' = [boot EXCEPT !.pc = IF ok THEN "run" ELSE "failed", !.pending = Tail(@)]
  /\ resp' = Note([op |-> Head(boot.pending).op, raised |-> ~ok])
  /\ UNCHANGED <<driver, inits>>

\* finally: await driver.close().  driver is the local name of the object
\* get_neo4j() returned: that object is closed.  _driver is not assigned: it
\* is the closed driver if it still refers to that object, and it is left as
\* it is, None or another driver object, if it has been assigned since
BootstrapFinally ==
  /\ \/ boot.pc = "run" /\ boot.pending = <<>>
     \/ boot.pc = "failed"
  /\ driver' = IF boot.shared THEN "closed" ELSE driver
  /\ boot' = [boot EXCEPT !.pc = IF boot.pc = "failed" THEN "raised" ELSE "done", !.pending = <<>>,
                          !.shared = FALSE]
  /\ resp' = Note([op |-> "bootstrap", step |-> "finally"])
  /\ UNCHANGED <<inits, nodes, edges>>

Next ==
  \/ InitNeo4j
  \/ CloseNeo4j
  \/ UpsertCourseNode
  \/ MergePrereqEdge
  \/ MergeAntireqEdge

Spec == Init /\ [][Next]_vars

(***************************************************************************)
(* The process of app/main.py.  startup awaits init_neo4j() and, when that *)
(* has returned, creates the task run_data_loading, which calls            *)
(* bootstrap_from_parsed_records once; init_neo4j is not called again.     *)
(* boot.server is where the process is: "new", "init" while startup awaits *)
(* init_neo4j, "serving" once startup has returned, "down" after shutdown. *)
(***************************************************************************)
InitProcess ==
  /\ driver = "None"
  /\ inits = 0
  /\ nodes = <<>>
  /\ edges = EmptyBag
  /\ boot = [pc |-> "idle", pending |-> <<>>, shared |-> FALSE, server |-> "new"]
  /\ resp = NoResp

\* startup, l.61: await init_neo4j(), up to its assignment of _driver
StartupInit ==
  /\ boot.server = "new"
  /\ InitAssign
  /\ boot' = [boot EXCEPT !.server = "init"]

\* startup, l.61-65: init_neo4j returns, having connected or given up, and
\* asyncio.create_task(run_data_loading()) is called
StartupReturn ==
  /\ boot.server = "init"
  /\ InitReturn \/ InitGiveUp
  /\ boot' = [boot EXCEPT !.server = "serving"]

Startup == StartupInit \/ StartupReturn

\* the task startup created has been started
TaskCreated == boot.server \in {"serving", "down"}

\* run_data_loading: await bootstrap_from_parsed_records(db, courses_data),
\* the scraped records being one of `batches`
RunDataLoading(batches) ==
  /\ TaskCreated
  /\ resp.op # "response"
  /\ \/ \E batch \in batches : BootstrapStart(batch)
     \/ BootstrapNoDriver
     \/ \E ok \in BOOLEAN : BootstrapCall(ok)
     \/ BootstrapFinally

NextBootstrap ==
  \/ Startup
  \/ RunDataLoading(Batches)

SpecBootstrap == InitProcess /\ [][NextBootstrap]_vars

(***************************************************************************)
(* The backend calls of one batch applied in an arbitrary order: the store *)
(* starts empty and each call of BatchMutations(batch) is made once, until *)
(* one raises; then the driver is closed as bootstrap_from_parsed_records  *)
(* closes it.                                                              *)
(***************************************************************************)
InitAnyOrder ==
  /\ driver = "open"
  /\ inits = 0
  /\ nodes = <<>>
  /\ edges = EmptyBag
  /\ \E batch \in Batches :
       boot = [pc |-> "any order", calls |-> BatchMutations(batch),
               left |-> 1..Len(BatchMutations(batch))]
  /\ resp = NoResp

\* one of the calls not yet made is made: it commits, or it raises and no
\* further call is made
ApplyAnyCall(i, ok) ==
  /\ boot.pc = "any order"
  /\ i \in boot.left
  /\ LET G == IF ok THEN Apply(boot.calls[i], Graph) ELSE Graph
     IN  /\ nodes' = G.nodes
         /\ edges' = G.edges
  /\ boot' = [boot EXCEPT !.pc = IF ok THEN "any order" ELSE "failed", !.left = @ \ {i}]
  /\ resp' = [op |-> boot.calls[i].op, raised |-> ~ok]
  /\ UNCHANGED <<driver, inits>>

\* finally: await driver.close(), after the last call or after the one that raised
AnyOrderFinally ==
  /\ \/ boot.pc = "any order" /\ boot.left = {}
     \/ boot.pc = "failed"
  /\ driver' = "closed"
  /\ boot' = [boot EXCEPT !.pc = IF boot.pc = "failed" THEN "raised" ELSE "done"]
  /\ resp' = [op |-> "bootstrap", step |-> "finally"]
  /\ UNCHANGED <<inits, nodes, edges>>

\* no batch makes more calls: per record one upsert, one merge_prereq_edge per
\* code of each group and two merge_antireq_edge per antirequisite
MaxCalls == MaxRecords * (1 + MaxGroups * Cardinality(Codes) + 2)

NextAnyOrder ==
  \/ \E i \in 1..MaxCalls, ok \in BOOLEAN : ApplyAnyCall(i, ok)
  \/ AnyOrderFinally

SpecAnyOrder == InitAnyOrder /\ [][NextAnyOrder]_vars

(***************************************************************************)
(* Strings at the query side.  A str is a sequence of characters here, so  *)
(* that replace, strip, upper and split do what Python's do.               *)
(***************************************************************************)
Lower == <<"a", "b", "c", "d", "e", "f", "g", "h", "i", "j", "k", "l", "m",
           "n", "o", "p", "q", "r", "s", "t", "u", "v", "w", "x", "y", "z">>
UpperCase == <<"A", "B", "C", "D", "E", "F", "G", "H", "I", "J", "K", "L", "M",
               "N", "O", "P", "Q", "R", "S", "T", "U", "V", "W", "X", "Y", "Z">>
\* the characters in the order of their code points
Alphabet == <<" ", "-", "0", "1", "2", "3", "4", "5", "6", "7", "8", "9">>
              \o UpperCase \o Lower

Ord(c) == CHOOSE i \in 1..Len(Alphabet) : Alphabet[i] = c

\* a < b for two strs, as Python compares them
RECURSIVE StrLess(_, _)
StrLess(a, b) ==
  IF b = <<>> THEN FALSE
  ELSE IF a = <<>> THEN TRUE
  ELSE IF Head(a) = Head(b) THEN StrLess(Tail(a), Tail(b))
  ELSE Ord(Head(a)) < Ord(Head(b))

\* the str as a TLA+ string
RECURSIVE Str(_)
Str(a) == IF a = <<>> THEN "" ELSE Head(a) \o Str(Tail(a))

\* c.upper() for one character
UpperChar(c) ==
  IF \E i \in 1..Len(Lower) : Lower[i] = c
  THEN UpperCase[CHOOSE i \in 1..Len(Lower) : Lower[i] = c]
  ELSE c

\* s.upper()
str_upper(a) == [i \in 1..Len(a) |-> UpperChar(a[i])]

\* s.replace(old, new) for single characters
str_replace(a, old, new) == [i \in 1..Len(a) |-> IF a[i] = old THEN new ELSE a[i]]

\* s.split(): the maximal runs of characters that are not whitespace
RECURSIVE SplitFrom(_, _, _)
SplitFrom(a, word, done) ==
  IF a = <<>> THEN (IF word = <<>> THEN done ELSE Append(done, word))
  ELSE IF Head(a) = " "
       THEN SplitFrom(Tail(a), <<>>, IF word = <<>> THEN done ELSE Append(done, word))
       ELSE SplitFrom(Tail(a), Append(word, Head(a)), done)
str_split(a) == SplitFrom(a, <<>>, <<>>)

\* s.strip()
RECURSIVE LStrip(_)
LStrip(a) == IF a # <<>> /\ Head(a) = " " THEN LStrip(Tail(a)) ELSE a
RECURSIVE RStrip(_)
RStrip(a) == IF a # <<>> /\ a[Len(a)] = " " THEN RStrip(SubSeq(a, 1, Len(a) - 1)) ELSE a
str_strip(a) == RStrip(LStrip(a))

\* sep.join(parts)
RECURSIVE str_join(_, _)
str_join(sep, parts) ==
  IF parts = <<>> THEN <<>>
  ELSE IF Len(parts) = 1 THEN parts[1]
  ELSE parts[1] \o sep \o str_join(sep, Tail(parts))

\* course._normalize_code_to_store
_normalize_code_to_store(code) ==
  str_join(<<" ">>, str_split(str_upper(str_strip(str_replace(code, "-", " ")))))

\* course._code_to_id
_code_to_id(code) ==
  LET parts == str_split(_normalize_code_to_store(code))
  IN  IF Len(parts) >= 2 THEN parts[1] \o <<"-">> \o parts[2]
      ELSE str_replace(code, " ", "-")

\* sorted(set(...)) of strs: each str once, at the place that the number of
\* smaller strs gives it
SortedSet(list) ==
  LET S == {list[i] : i \in 1..Len(list)}
      ranked == {<<Cardinality({y \in S : StrLess(y, x)}), x>> : x \in S}
  IN  [k \in 1..Cardinality(S) |-> (CHOOSE r \in ranked : r[1] = k - 1)[2]]

(***************************************************************************)
(* Traversal: collect_graph_for_id.                                        *)
(***************************************************************************)
\* LIMIT 200
PathLimit == 200
\* depth: int = 6, and the depth every endpoint passes
DefaultDepth == 6

Range(f) == {f[i] : i \in DOMAIN f}

RECURSIVE SetToSeq(_)
SetToSeq(S) ==
  IF S = {} THEN <<>>
  ELSE LET x == CHOOSE y \in S : TRUE IN <<x>> \o SetToSeq(S \ {x})

\* The relationships of the store, one per copy: <<tuple, k>>
Relationships(E) == UNION {{<<r, k>> : k \in 1..CopiesIn(r, E)} : r \in BagToSet(E)}

StartOf(x) == x[1][1]
EndOf(x) == x[1][2]
TypeOf(x) == x[1][3]

\* the node a path has reached
LastNode(id, p) == IF p = <<>> THEN id ELSE EndOf(p[Len(p)])

\* (..)-[:rel]->(..): the paths one hop longer than p; a relationship occurs
\* once in a path
ExtendOne(Rs, rel, id, p) ==
  LET Next1(y) == /\ TypeOf(y) = rel
                  /\ StartOf(y) = LastNode(id, p)
                  /\ \A i \in 1..Len(p) : p[i] # y
      c == SelectSeq(Rs, Next1)
  IN  [i \in 1..Len(c) |-> Append(p, c[i])]

\* the same for the paths P[lo..hi], taken by halves
RECURSIVE ExtendAll(_, _, _, _, _, _)
ExtendAll(Rs, rel, id, P, lo, hi) ==
  IF lo > hi THEN <<>>
  ELSE IF lo = hi THEN ExtendOne(Rs, rel, id, P[lo])
  ELSE LET mid == (lo + hi) \div 2
       IN  ExtendAll(Rs, rel, id, P, lo, mid) \o ExtendAll(Rs, rel, id, P, mid + 1, hi)

\* the paths of 1..depth more hops found from the paths P of one length
RECURSIVE Longer(_, _, _, _, _)
Longer(Rs, rel, id, P, depth) ==
  IF depth <= 0 \/ P = <<>> THEN <<>>
  ELSE LET Q == ExtendAll(Rs, rel, id, P, 1, Len(P))
       IN  Q \o Longer(Rs, rel, id, Q, depth - 1)

\* the pattern with *0..depth: the path of no hop is matched too
MatchPathsFromZero(G, id, rel, depth) ==
  IF id \notin DOMAIN G.nodes THEN {}
  ELSE {<<>>} \cup Range(Longer(SetToSeq(Relationships(G.edges)), rel, id, <<<<>>>>, depth))

\* MATCH path=(c:Course {id:$id})-[:rel*1..depth]->(n): the set of the paths
\* matched, each a sequence of relationships; the query gives them no order
MatchPaths(G, id, rel, depth) ==
  IF id \notin DOMAIN G.nodes THEN {}
  ELSE Range(Longer(SetToSeq(Relationships(G.edges)), rel, id, <<<<>>>>, depth))

\* the relationships of a path before its last one, and its last one
Needs(p) == {p[i] : i \in 1..Len(p) - 1}
Brings(p) == p[Len(p)]

\* the path comes back to no node before its last relationship
NoDetour(p) ==
  \A i, j \in 1..Len(p) - 1 : (i < j => EndOf(p[i]) # EndOf(p[j])) /\ EndOf(p[i]) # StartOf(p[1])

\* The rows that bring something new, in every order in which the rows of
\* the paths W can bring the relationships S: the next such row ends with a
\* relationship not seen yet after relationships seen already.  One path is
\* taken for each relationship that can come next; another path that brings
\* it after other relationships seen already leaves the same nodes and links.
RECURSIVE RowOrders(_, _, _)
RowOrders(W, S, rows) ==
  LET got == UNION {Range(rows[i]) : i \in 1..Len(rows)}
      next == {p \in W : Brings(p) \notin got /\ Needs(p) \subseteq got}
      first == {CHOOSE p \in next : Brings(p) = x : x \in {Brings(q) : q \in next}}
  IN  IF got = S THEN {rows}
      ELSE UNION {RowOrders(W, S, Append(rows, p)) : p \in first}

\* LIMIT 200 with no ORDER BY: the server returns min(|M|, 200) of the matched
\* paths M, whichever it finds first and in that order.  The loops over the
\* rows keep the first occurrence of every node and of every link, so the
\* rows that bring no new relationship change nothing and are left out here:
\* LimitPaths is the set of the sequences of the other rows, over all the
\* choices the server has.  The relationships S of the rows returned are any
\* set that min(|M|, 200) of the paths lie within.  With every path M holds
\* the paths it begins with, so a relationship can be brought by a row that
\* ends with it, and by one that makes no detour on the way (NoDetour).
LimitPaths(M) ==
  LET n == IF Cardinality(M) <= PathLimit THEN Cardinality(M) ELSE PathLimit
      K == UNION {Range(p) : p \in M}
      Within(S) == {p \in M : Range(p) \subseteq S}
      Sets == IF Cardinality(M) <= PathLimit THEN {K}
              ELSE {S \in SUBSET K : Cardinality(Within(S)) >= n}
      W == {p \in M : p # <<>> /\ NoDetour(p)}
      zero == IF <<>> \in M THEN <<<<>>>> ELSE <<>>
  IN  UNION {RowOrders({p \in W : Range(p) \subseteq S}, S, zero) : S \in Sets}

\* {id: x.id, code: x.code, title: x.title, level: x.level}
NodeDict(G, id) ==
  [code |-> G.nodes[id].code, id |-> id, title |-> G.nodes[id].title, level |-> G.nodes[id].level]

\* {start: startNode(r).id, end: endNode(r).id, type: type(r), group_id: r.group_id}
LinkDict(x) == [start |-> x[1][1], end |-> x[1][2], type |-> x[1][3], group_id |-> x[1][4]]

\* one row of the result: nodes(path) as nds, relationships(path) as rls
RowOf(G, id, p) ==
  [nds |-> <<NodeDict(G, id)>> \o [i \in 1..Len(p) |-> NodeDict(G, EndOf(p[i]))],
   rls |-> [i \in 1..Len(p) |-> LinkDict(p[i])]]

\* the node is appended whether or not its id is a key already
DictAppend(d, n) == Append(d, n)

\* d[n["id"]] = n on a dict kept as the list of its values in insertion order
DictPut(d, n) ==
  IF \E i \in 1..Len(d) : d[i].id = n.id
  THEN [d EXCEPT ![CHOOSE i \in 1..Len(d) : d[i].id = n.id] = n]
  ELSE Append(d, n)

RECURSIVE DictPutAll(_, _)
DictPutAll(d, ns) == IF ns = <<>> THEN d ELSE DictPutAll(DictPut(d, Head(ns)), Tail(ns))

LinkKey(l) == <<l.start, l.end, l.type, l.group_id>>

\* "dedupe links": the first link of each key, in order
RECURSIVE DedupeLinks(_, _, _)
DedupeLinks(links, seen, uniq_links) ==
  IF links = <<>> THEN uniq_links
  ELSE IF LinkKey(Head(links)) \in seen THEN DedupeLinks(Tail(links), seen, uniq_links)
  ELSE DedupeLinks(Tail(links), seen \cup {LinkKey(Head(links))}, Append(uniq_links, Head(links)))

\* The loop over records and the dedupe loop after it, for the rows lo..hi.
\* The list is taken by halves: putting the nodes of the right half into the
\* dict of the left half, and appending the links of the right half whose key
\* the left half has not seen, is what the two loops do from left to right.
RECURSIVE CollectRows(_, _, _)
CollectRows(rows, lo, hi) ==
  IF lo > hi THEN [uniq_links |-> <<>>, nodes_map |-> <<>>]
  ELSE IF lo = hi
       THEN [uniq_links |-> DedupeLinks(rows[lo].rls, {}, <<>>),
             nodes_map |-> DictPutAll(<<>>, rows[lo].nds)]
  ELSE LET mid == (lo + hi) \div 2
           l == CollectRows(rows, lo, mid)
           r == CollectRows(rows, mid + 1, hi)
           seen == {LinkKey(l.uniq_links[i]) : i \in 1..Len(l.uniq_links)}
           Unseen(x) == LinkKey(x) \notin seen
       IN  [uniq_links |-> l.uniq_links \o SelectSeq(r.uniq_links, Unseen),
            nodes_map |-> DictPutAll(l.nodes_map, r.nodes_map)]

EmptyResult == [nodes |-> <<>>, links |-> <<>>]

\* the ids of the nodes and the tuples of the links of a result
NodeIds(g) == {g.nodes[i].id : i \in 1..Len(g.nodes)}
LinkKeys(g) == {LinkKey(g.links[i]) : i \in 1..Len(g.links)}

REQUIRES == <<"R", "E", "Q", "U", "I", "R", "E", "S">>
UNLOCKS == <<"U", "N", "L", "O", "C", "K", "S">>
ANTIREQ == <<"A", "N", "T", "I", "R", "E", "Q">>

\* the rel_type interpolated as it was passed
RelVerbatim(rel_type) == Str(rel_type)

\* rel = "REQUIRES" if rel_type.upper() == "REQUIRES" else "UNLOCKS"
RelOf(rel_type) == IF str_upper(rel_type) = REQUIRES THEN "REQUIRES" ELSE "UNLOCKS"

\* the paths the query matches
QueryPaths(G, id_value, rel_type, depth) == MatchPaths(G, id_value, RelOf(rel_type), depth)

\* the rows the server may return to the query
QueryRows(G, id_value, rel_type, depth) == LimitPaths(QueryPaths(G, id_value, rel_type, depth))

\* collect_graph_for_id(driver, id_value, rel_type, depth) on the store G; ok:
\* the session ran the query, paths: the paths of the rows it returned
collect_graph_for_id(drv, ok, paths, G, id_value) ==
  IF drv = "None" THEN EmptyResult
  ELSE IF ~ok THEN EmptyResult
  ELSE LET records == [i \in 1..Len(paths) |-> RowOf(G, id_value, paths[i])]
           got == CollectRows(records, 1, Len(records))
       IN  [nodes |-> got.nodes_map, links |-> got.uniq_links]

(***************************************************************************)
(* The query endpoints of app/api/v1/endpoints/course.py.                  *)
(***************************************************************************)
\* what the server may do with one query: the session fails, or the query
\* runs and returns rows
Outcomes(drv, G, id_value, rel_type, depth) ==
  IF drv = "None" THEN {[ok |-> FALSE, paths |-> <<>>]}
  ELSE {[ok |-> FALSE, paths |-> <<>>]}
         \cup {[ok |-> TRUE, paths |-> r] : r \in QueryRows(G, id_value, rel_type, depth)}

\* await collect_graph_for_id(...): what the call may return; ok records
\* whether the backend answered
Traverse(drv, G, id_value, rel_type, depth) ==
  {[ok |-> o.ok, graph |-> collect_graph_for_id(drv, o.ok, o.paths, G, id_value)] :
     o \in Outcomes(drv, G, id_value, rel_type, depth)}

\* get_neo4j: print(..., _driver._closed), then return _driver.  While _driver
\* is None the print raises AttributeError: None has no attribute _closed
get_neo4j(drv) ==
  IF drv = "None" THEN [raised |-> TRUE, value |-> None]
  ELSE [raised |-> FALSE, value |-> drv]

\* get_backpath: the handler turns any exception, that of get_neo4j() too,
\* into 503
get_backpath(drv, sub) ==
  IF get_neo4j(drv).raised THEN [status |-> 503, answered |-> FALSE, body |-> "neo4j not available"]
  ELSE [status |-> 200, answered |-> sub.ok, body |-> sub.graph]

\* get_frontpath: the same exception of get_neo4j() is not caught here
get_frontpath(drv, sub) ==
  IF get_neo4j(drv).raised THEN [status |-> 500, answered |-> FALSE, body |-> "Internal Server Error"]
  ELSE [status |-> 200, answered |-> sub.ok, body |-> sub.graph]

\* _SE_PLAN; a str of a course list is its sequence of characters
_SE_PLAN ==
  [name |-> "Software Engineering (BSE)",
   total_units_required |-> "21.5",
   required_courses |->
     <<<<"C", "S", " ", "1", "3", "7">>, <<"C", "H", "E", " ", "1", "0", "2">>,
       <<"M", "A", "T", "H", " ", "1", "1", "5">>,
       <<"M", "A", "T", "H", " ", "1", "1", "7">>,
       <<"M", "A", "T", "H", " ", "1", "3", "5">>, <<"S", "E", " ", "1", "0", "1">>,
       <<"C", "S", " ", "1", "3", "8">>, <<"E", "C", "E", " ", "1", "2", "4">>,
       <<"E", "C", "E", " ", "1", "4", "0">>, <<"E", "C", "E", " ", "1", "9", "2">>,
       <<"M", "A", "T", "H", " ", "1", "1", "9">>, <<"S", "E", " ", "1", "0", "2">>,
       <<"C", "S", " ", "2", "4", "1">>, <<"E", "C", "E", " ", "2", "2", "2">>,
       <<"S", "E", " ", "2", "0", "1">>, <<"S", "E", " ", "2", "1", "2">>,
       <<"S", "T", "A", "T", " ", "2", "0", "6">>, <<"C", "S", " ", "2", "4", "0">>,
       <<"C", "S", " ", "2", "4", "7">>, <<"C", "S", " ", "3", "4", "8">>,
       <<"M", "A", "T", "H", " ", "2", "3", "9">>, <<"S", "E", " ", "2", "0", "2">>,
       <<"C", "S", " ", "3", "4", "1">>, <<"M", "A", "T", "H", " ", "2", "1", "3">>,
       <<"S", "E", " ", "3", "0", "1">>, <<"S", "E", " ", "3", "5", "0">>,
       <<"S", "E", " ", "4", "6", "4">>, <<"S", "E", " ", "4", "6", "5">>,
       <<"C", "S", " ", "3", "4", "3">>, <<"E", "C", "E", " ", "3", "5", "8">>,
       <<"S", "E", " ", "3", "0", "2">>, <<"S", "E", " ", "3", "8", "0">>,
       <<"S", "E", " ", "4", "6", "3">>, <<"S", "E", " ", "4", "0", "1">>,
       <<"S", "E", " ", "4", "0", "2">>, <<"G", "E", "N", "E", " ", "4", "0", "3">>,
       <<"G", "E", "N", "E", " ", "4", "0", "4">>, <<"S", "E", " ", "4", "9", "0">>,
       <<"S", "E", " ", "4", "9", "1">>>>,
   complementary_lists |->
     [A |-> <<<<"C", "O", "M", "M", "S", "T", " ", "1", "0", "0">>,
            <<"E", "N", "G", "L", " ", "1", "0", "9">>>>,
      C |-> <<<<"P", "H", "I", "L", " ", "2", "2", "4">>,
            <<"H", "U", "M", "N", " ", "1", "0", "1">>>>,
      choose |-> [A |-> 1, C |-> 1]],
   communication_requirement |->
     [choose |-> 1,
      courses |->
        <<<<"C", "O", "M", "M", "S", "T", " ", "1", "0", "0">>,
          <<"C", "O", "M", "M", "S", "T", " ", "2", "2", "3">>,
          <<"E", "M", "L", "S", "1", "0", "1", "R">>,
          <<"E", "M", "L", "S", "1", "0", "2", "R">>,
          <<"E", "M", "L", "S", "1", "2", "9", "R">>,
          <<"E", "N", "G", "L", "1", "0", "9">>, <<"E", "N", "G", "L", "1", "1", "9">>,
          <<"E", "N", "G", "L", "1", "2", "9", "R">>,
          <<"E", "N", "G", "L", "2", "0", "9">>,
          <<"E", "N", "G", "L", "2", "1", "0", "E">>>>],
   natural_science |->
     [choose |-> 3,
      courses |->
        <<<<"A", "M", "A", "T", "H", "3", "8", "2">>,
          <<"B", "I", "O", "L", "1", "1", "0">>, <<"B", "I", "O", "L", "1", "3", "0">>,
          <<"B", "I", "O", "L", "1", "3", "0", "L">>,
          <<"B", "I", "O", "L", "1", "5", "0">>, <<"B", "I", "O", "L", "1", "6", "5">>,
          <<"B", "I", "O", "L", "2", "1", "1">>, <<"B", "I", "O", "L", "2", "2", "0">>,
          <<"B", "I", "O", "L", "2", "3", "9">>, <<"B", "I", "O", "L", "2", "4", "0">>,
          <<"B", "I", "O", "L", "2", "4", "0", "L">>,
          <<"B", "I", "O", "L", "2", "4", "1">>, <<"B", "I", "O", "L", "2", "7", "3">>,
          <<"B", "I", "O", "L", "2", "8", "0">>, <<"B", "I", "O", "L", "3", "6", "5">>,
          <<"B", "I", "O", "L", "3", "7", "3">>,
          <<"B", "I", "O", "L", "3", "7", "3", "L">>,
          <<"B", "I", "O", "L", "3", "7", "6">>, <<"B", "I", "O", "L", "3", "8", "2">>,
          <<"B", "I", "O", "L", "4", "6", "9">>, <<"B", "I", "O", "L", "4", "7", "6">>,
          <<"B", "I", "O", "L", "4", "8", "9">>, <<"C", "H", "E", " ", "1", "6", "1">>,
          <<"C", "H", "E", "M", "1", "2", "3">>,
          <<"C", "H", "E", "M", "1", "2", "3", "L">>,
          <<"C", "H", "E", "M", "2", "0", "9">>, <<"C", "H", "E", "M", "2", "3", "7">>,
          <<"C", "H", "E", "M", "2", "3", "7", "L">>,
          <<"C", "H", "E", "M", "2", "5", "4">>, <<"C", "H", "E", "M", "2", "6", "2">>,
          <<"C", "H", "E", "M", "2", "6", "2", "L">>,
          <<"C", "H", "E", "M", "2", "6", "6">>, <<"C", "H", "E", "M", "3", "5", "6">>,
          <<"C", "S", "4", "8", "2">>, <<"E", "A", "R", "T", "H", "1", "2", "1">>,
          <<"E", "A", "R", "T", "H", "1", "2", "2">>,
          <<"E", "A", "R", "T", "H", "1", "2", "3">>,
          <<"E", "A", "R", "T", "H", "2", "2", "1">>,
          <<"E", "A", "R", "T", "H", "2", "7", "0">>,
          <<"E", "A", "R", "T", "H", "2", "8", "1">>, <<"E", "C", "E", "1", "0", "6">>,
          <<"E", "C", "E", "2", "3", "1">>, <<"E", "C", "E", "3", "0", "5">>,
          <<"E", "C", "E", "4", "0", "3">>, <<"E", "C", "E", "4", "0", "4">>,
          <<"E", "N", "V", "E", "2", "7", "5">>, <<"E", "N", "V", "S", "2", "0", "0">>,
          <<"N", "E", "2", "2", "2">>, <<"P", "H", "Y", "S", "1", "2", "2">>,
          <<"P", "H", "Y", "S", "1", "2", "4">>, <<"P", "H", "Y", "S", "1", "7", "5">>,
          <<"P", "H", "Y", "S", "2", "3", "3">>, <<"P", "H", "Y", "S", "2", "3", "4">>,
          <<"P", "H", "Y", "S", "2", "6", "3">>, <<"P", "H", "Y", "S", "2", "7", "5">>,
          <<"P", "H", "Y", "S", "2", "8", "0">>, <<"P", "H", "Y", "S", "3", "3", "4">>,
          <<"P", "H", "Y", "S", "3", "3", "5">>, <<"P", "H", "Y", "S", "3", "7", "5">>,
          <<"P", "H", "Y", "S", "3", "8", "0">>, <<"P", "H", "Y", "S", "4", "6", "8">>,
          <<"P", "S", "Y", "C", "H", "2", "0", "7">>,
          <<"P", "S", "Y", "C", "H", "2", "6", "1">>,
          <<"P", "S", "Y", "C", "H", "3", "0", "6">>,
          <<"P", "S", "Y", "C", "H", "3", "0", "7">>, <<"S", "C", "I", "2", "0", "0">>,
          <<"S", "C", "I", "2", "0", "1">>, <<"S", "C", "I", "2", "3", "8">>,
          <<"S", "C", "I", "2", "5", "0">>>>],
   technical_electives |->
     [min_required |-> 4,
      list1 |->
        <<<<"A", "M", "A", "T", "H", "2", "4", "2">>,
          <<"A", "M", "A", "T", "H", "4", "4", "9">>, <<"C", "S", "3", "6", "0">>,
          <<"C", "S", "3", "6", "5">>, <<"C", "S", "3", "7", "0">>,
          <<"C", "S", "3", "7", "1">>, <<"C", "S", "4", "4", "2">>,
          <<"C", "S", "4", "4", "4">>, <<"C", "S", "4", "4", "8">>,
          <<"C", "S", "4", "5", "0">>, <<"C", "S", "4", "5", "1">>,
          <<"C", "S", "4", "5", "2">>, <<"C", "S", "4", "5", "3">>,
          <<"C", "S", "4", "5", "4">>, <<"C", "S", "4", "5", "7">>,
          <<"C", "S", "4", "5", "9">>, <<"C", "S", "4", "6", "2">>,
          <<"C", "S", "4", "6", "6">>, <<"C", "S", "4", "7", "9">>,
          <<"C", "S", "4", "8", "0">>, <<"C", "S", "4", "8", "4">>,
          <<"C", "S", "4", "8", "5">>, <<"C", "S", "4", "8", "6">>,
          <<"C", "S", "4", "8", "7">>, <<"C", "S", "4", "8", "8">>,
          <<"C", "S", "4", "8", "9">>>>,
      list2 |->
        <<<<"E", "C", "E", "3", "1", "3">>, <<"E", "C", "E", "3", "2", "0">>,
          <<"E", "C", "E", "3", "2", "7">>, <<"E", "C", "E", "3", "4", "0">>,
          <<"E", "C", "E", "4", "0", "5", "A">>, <<"E", "C", "E", "4", "0", "5", "B">>,
          <<"E", "C", "E", "4", "0", "5", "C">>, <<"E", "C", "E", "4", "0", "5", "D">>,
          <<"E", "C", "E", "4", "0", "9">>, <<"E", "C", "E", "4", "1", "6">>,
          <<"E", "C", "E", "4", "1", "7">>, <<"E", "C", "E", "4", "2", "3">>,
          <<"E", "C", "E", "4", "5", "4">>, <<"E", "C", "E", "4", "5", "5">>,
          <<"E", "C", "E", "4", "5", "7", "A">>, <<"E", "C", "E", "4", "5", "7", "B">>,
          <<"E", "C", "E", "4", "5", "7", "C">>, <<"E", "C", "E", "4", "5", "8">>,
          <<"E", "C", "E", "4", "5", "9">>, <<"E", "C", "E", "4", "8", "1">>,
          <<"E", "C", "E", "4", "8", "6">>, <<"E", "C", "E", "4", "8", "8">>,
          <<"E", "C", "E", "4", "9", "3">>, <<"E", "C", "E", "4", "9", "5">>>>,
      list3 |->
        <<<<"B", "I", "O", "L", "4", "8", "7">>, <<"C", "O", "3", "3", "1">>,
          <<"C", "O", "3", "4", "2">>, <<"C", "O", "3", "5", "1">>,
          <<"C", "O", "3", "5", "3">>, <<"C", "O", "3", "6", "7">>,
          <<"C", "O", "4", "5", "6">>, <<"C", "O", "4", "8", "1">>,
          <<"C", "O", "4", "8", "5">>, <<"C", "O", "4", "8", "7">>,
          <<"C", "S", "4", "6", "7">>, <<"M", "S", "E", "3", "4", "3">>,
          <<"M", "S", "E", "4", "4", "6">>, <<"M", "S", "E", "5", "4", "3">>,
          <<"M", "T", "E", "5", "4", "4">>, <<"M", "T", "E", "5", "4", "6">>,
          <<"P", "H", "Y", "S", "4", "6", "7">>, <<"S", "E", "4", "9", "8">>,
          <<"S", "T", "A", "T", "4", "4", "0">>, <<"S", "T", "A", "T", "4", "4", "1">>,
          <<"S", "T", "A", "T", "4", "4", "2">>, <<"S", "T", "A", "T", "4", "4", "4">>,
          <<"S", "Y", "D", "E", "5", "3", "3">>, <<"S", "Y", "D", "E", "5", "4", "3">>,
          <<"S", "Y", "D", "E", "5", "4", "8">>, <<"S", "Y", "D", "E", "5", "5", "2">>,
          <<"S", "Y", "D", "E", "5", "5", "6">>, <<"S", "Y", "D", "E", "5", "7", "5">>>>],
   sustainability_options |->
     <<<<"B", "I", "O", "L", "4", "8", "9">>,
       <<"E", "A", "R", "T", "H", "2", "7", "0">>,
       <<"E", "N", "B", "U", "S", "1", "0", "2">>,
       <<"E", "N", "B", "U", "S", "2", "1", "1">>,
       <<"E", "N", "G", "L", "2", "4", "8">>, <<"E", "N", "V", "S", "1", "0", "5">>,
       <<"E", "N", "V", "S", "2", "0", "0">>, <<"E", "N", "V", "S", "2", "0", "5">>,
       <<"E", "N", "V", "S", "2", "2", "0">>, <<"E", "R", "S", "2", "1", "5">>,
       <<"E", "R", "S", "2", "2", "5">>, <<"E", "R", "S", "2", "5", "3">>,
       <<"E", "R", "S", "2", "7", "0">>, <<"E", "R", "S", "2", "9", "4">>,
       <<"E", "R", "S", "3", "1", "0">>, <<"E", "R", "S", "3", "1", "6">>,
       <<"E", "R", "S", "3", "2", "0">>, <<"E", "R", "S", "3", "2", "8">>,
       <<"E", "R", "S", "3", "6", "1">>, <<"E", "R", "S", "3", "7", "0">>,
       <<"E", "R", "S", "3", "7", "2">>, <<"E", "R", "S", "4", "0", "4">>,
       <<"G", "E", "O", "G", "2", "0", "3">>, <<"G", "E", "O", "G", "2", "0", "7">>,
       <<"G", "E", "O", "G", "2", "2", "5">>, <<"G", "E", "O", "G", "3", "6", "1">>,
       <<"G", "E", "O", "G", "4", "5", "9">>, <<"P", "A", "C", "S", "3", "1", "0">>,
       <<"P", "H", "I", "L", "2", "2", "4">>, <<"P", "L", "A", "N", "4", "5", "1">>,
       <<"P", "S", "C", "I", "4", "3", "2">>, <<"R", "C", "S", "2", "8", "5">>,
       <<"S", "C", "I", "2", "0", "0">>, <<"S", "C", "I", "2", "0", "1">>,
       <<"T", "H", "P", "E", "R", "F", "3", "7", "4">>>>,
   co_op |-> [pd_courses |-> <<<<"P", "D", "1", "0">>, <<"P", "D", "1", "1">>, <<"P", "D", "1", "9">>,
            <<"P", "D", "2", "0">>, <<"P", "D", "X">>>>,
              work_terms_required |-> 5],
   notes |-> <<"Some courses may be taken out of sequence per program rules.",
              "Technical electives may not be taken before 3A term.",
              "Complementary studies lists A/C need to be filled with official course codes.">>]

\* _PLANS
_PLANS ==
  [p \in {"SE major", "Software Engineering", "AI specialization", "MTE minor"} |->
     IF p \in {"SE major", "Software Engineering"} THEN _SE_PLAN
     ELSE IF p = "AI specialization"
     THEN [name |-> p,
           required_courses |-> << <<"C", "S", " ", "4", "8", "6">>,
                                   <<"C", "S", " ", "4", "8", "4">>,
                                   <<"M", "A", "T", "H", " ", "2", "3", "9">> >>]
     ELSE [name |-> p,
           required_courses |-> << <<"M", "T", "E", " ", "1", "2", "1">>,
                                   <<"M", "T", "E", " ", "1", "2", "2">> >>]]

\* {}: the dict without a key
EmptyDict == <<>>

\* d.get(key, default)
dict_get(d, key, default) == IF key \in DOMAIN d THEN d[key] ELSE default

\* _expand_plan_to_codes: the codes of required_courses, of the courses of
\* communication_requirement, of the lists A and C of complementary_lists, of
\* the courses of natural_science, of list1, list2 and list3 of
\* technical_electives and of sustainability_options, each normalised, sorted
_expand_plan_to_codes(plan_def) ==
  IF DOMAIN plan_def = {} THEN <<>>
  ELSE LET comp == dict_get(plan_def, "complementary_lists", EmptyDict)
           te == dict_get(plan_def, "technical_electives", EmptyDict)
           listed ==
             dict_get(plan_def, "required_courses", <<>>)
               \o dict_get(dict_get(plan_def, "communication_requirement", EmptyDict), "courses", <<>>)
               \o dict_get(comp, "A", <<>>)
               \o dict_get(comp, "C", <<>>)
               \o dict_get(dict_get(plan_def, "natural_science", EmptyDict), "courses", <<>>)
               \o dict_get(te, "list1", <<>>)
               \o dict_get(te, "list2", <<>>)
               \o dict_get(te, "list3", <<>>)
               \o dict_get(plan_def, "sustainability_options", <<>>)
       IN  SortedSet([i \in 1..Len(listed) |-> _normalize_code_to_store(listed[i])])

\* the loop over plans: <<selected_codes, unknown>>
RECURSIVE ExpandPlans(_, _, _)
ExpandPlans(plans, selected_codes, unknown) ==
  IF plans = <<>> THEN <<selected_codes, unknown>>
  ELSE IF Head(plans) \notin DOMAIN _PLANS
       THEN ExpandPlans(Tail(plans), selected_codes, Append(unknown, Head(plans)))
       ELSE ExpandPlans(Tail(plans),
                        selected_codes \o _expand_plan_to_codes(_PLANS[Head(plans)]), unknown)

\* selected_codes = sorted(set(selected_codes))
SelectedCodes(plans) == SortedSet(ExpandPlans(plans, <<>>, <<>>)[1])

\* ids = [_code_to_id(c) for c in selected_codes]
PlanIds(plans) ==
  LET sc == SelectedCodes(plans) IN [i \in 1..Len(sc) |-> Str(_code_to_id(sc[i]))]

\* the aggregation keeps the nodes of the last sub-result only
RECURSIVE AggregateLast(_, _, _)
AggregateLast(subs, agg_nodes, agg_links) ==
  IF subs = <<>> THEN [nodes |-> agg_nodes, links |-> DedupeLinks(agg_links, {}, <<>>)]
  ELSE AggregateLast(Tail(subs), Head(subs).graph.nodes, Head(subs).graph.links)

\* for cid in ids: agg_nodes[n["id"]] = n; agg_links.extend(...); then dedupe
RECURSIVE Aggregate(_, _, _)
Aggregate(subs, agg_nodes, agg_links) ==
  IF subs = <<>> THEN [nodes |-> agg_nodes, links |-> DedupeLinks(agg_links, {}, <<>>)]
  ELSE Aggregate(Tail(subs), DictPutAll(agg_nodes, Head(subs).graph.nodes),
                 agg_links \o Head(subs).graph.links)

AllOk(subs) == \A i \in 1..Len(subs) : subs[i].ok

\* the response of courses_by_plans once the ids have been traversed
AggregateResponse(plans, selected_codes, unknown, subs) ==
  LET got == Aggregate(subs, <<>>, <<>>)
  IN  [status |-> 200, answered |-> AllOk(subs),
       body |-> IF unknown # <<>>
                THEN [nodes |-> got.nodes, links |-> got.links, plans |-> plans,
                      requested_codes |-> selected_codes, unknown_plans |-> unknown]
                ELSE [nodes |-> got.nodes, links |-> got.links, plans |-> plans,
                      requested_codes |-> selected_codes]]

\* the driver is fetched before the plans are looked at
courses_by_plans_driver_first(drv, plans, subs) ==
  IF drv = "None"
  THEN [status |-> 500, answered |-> FALSE, body |-> "Internal Server Error"]
  ELSE IF plans = <<>>
  THEN [status |-> 400, answered |-> TRUE, body |-> "request body must be a non-empty JSON array of plan names"]
  ELSE LET expanded == ExpandPlans(plans, <<>>, <<>>)
       IN  AggregateResponse(plans, SortedSet(expanded[1]), expanded[2], subs)

\* courses_by_plans; subs: what the awaits of its loop returned
courses_by_plans(drv, plans, subs) ==
  IF plans = <<>>
  THEN [status |-> 400, answered |-> TRUE, body |-> "request body must be a non-empty JSON array of plan names"]
  ELSE LET expanded == ExpandPlans(plans, <<>>, <<>>)
           selected_codes == SortedSet(expanded[1])
           unknown == expanded[2]
       IN  IF selected_codes = <<>>
           THEN [status |-> 200, answered |-> TRUE,
                 body |-> [nodes |-> <<>>, links |-> <<>>, plans |-> plans,
                           requested_codes |-> <<>>, unknown_plans |-> unknown]]
           ELSE IF get_neo4j(drv).raised
           THEN [status |-> 500, answered |-> FALSE, body |-> "Internal Server Error"]
           ELSE AggregateResponse(plans, selected_codes, unknown, subs)

\* what courses_by_plans does before its loop: it returns or raises when no
\* plan is named, when no course is selected and when get_neo4j() raises
BeforeLoop(drv, plans) ==
  \/ plans = <<>>
  \/ SelectedCodes(plans) = <<>>
  \/ get_neo4j(drv).raised

(***************************************************************************)
(* The requests.  The client sends a request, the handler runs and the     *)
(* response is delivered; then the next request is made.  A handler runs   *)
(* up to its first await in one step, in which it takes the driver         *)
(* (resp.db); each await of collect_graph_for_id is one more step, that of *)
(* the query, run with the driver the handler took on the store as it is   *)
(* by then, with what the handler does after it.  The calls of other tasks *)
(* are made between the steps of a handler as they are made between        *)
(* requests.                                                               *)
(***************************************************************************)
\* group ids of the graphs that are queried range over 1..QueryGroups
QueryGroups == 4
\* a request to /courses/by-plans names at most MaxPlans plans
MaxPlans == 2
\* and the loop of courses_by_plans traverses from at most MaxPlanIds ids
MaxPlanIds == 3

\* the rel_type strings passed to collect_graph_for_id
RelTypes == {REQUIRES, UNLOCKS, ANTIREQ, <<"r", "e", "q", "u", "i", "r", "e", "s">>}
Depths == {1, 2, DefaultDepth}
\* the {code} path parameters
PathCodes == {<<"c", "s", " ", "4", "8", "4">>, <<"C", "S", "-", "4", "8", "6">>,
              <<"c", "s", "4", "8", "6">>}
PlanNames == {"AI specialization", "MTE minor", "Robotics option"}
\* the courses of the queried graphs: a third one, of "AI specialization"
QueryIds == Ids \cup {_course_pk("MATH", "239")}

Send(call, args) ==
  /\ NoRequest
  /\ resp' = [op |-> "request", call |-> call, args |-> args]
  /\ UNCHANGED <<driver, inits, nodes, edges, boot>>

\* subs: what the calls of collect_graph_for_id returned to the handler
Respond(r, subs) ==
  /\ resp' = [op |-> "response", call |-> resp.call, args |-> resp.args, status |-> r.status,
              answered |-> r.answered, body |-> r.body, subs |-> subs]
  /\ UNCHANGED <<driver, inits, nodes, edges, boot>>

\* the response has reached the client
Deliver ==
  /\ resp.op = "response"
  /\ resp' = NoResp
  /\ UNCHANGED <<driver, inits, nodes, edges, boot>>

\* collect_graph_for_id is called with the shared driver, as it is at the call
CallCollect ==
  \E id \in QueryIds, rt \in RelTypes, d \in Depths :
    /\ NoRequest
    /\ resp' = [op |-> "request", call |-> "collect_graph_for_id",
                args |-> [depth |-> d, rel_type |-> rt, id_value |-> id], db |-> driver]
    /\ UNCHANGED <<driver, inits, nodes, edges, boot>>
RequestBackpath == \E code \in PathCodes : Send("get_backpath", [code |-> code])
RequestFrontpath == \E code \in PathCodes : Send("get_frontpath", [code |-> code])
\* the requests to /courses/by-plans: their plans expand to at most MaxPlanIds ids
PlanRequests == {plans \in SeqsUpTo(PlanNames, MaxPlans) : Len(PlanIds(plans)) <= MaxPlanIds}
RequestByPlans == \E plans \in PlanRequests : Send("courses_by_plans", [plans |-> plans])

\* collect_graph_for_id: its query runs with the driver it was called with,
\* on the store as it is by now, and it returns
CollectGraphForId ==
  /\ Requested("collect_graph_for_id")
  /\ \E sub \in Traverse(resp.db, Graph, resp.args.id_value, resp.args.rel_type, resp.args.depth) :
        Respond([status |-> 0, answered |-> sub.ok, body |-> sub.graph], <<sub>>)

\* get_backpath.  First driver = get_neo4j(): when that raises the handler
\* answers, else it calls collect_graph_for_id with the driver.  Then the
\* query of that call runs and the handler answers.
GetBackpath ==
  /\ Requested("get_backpath")
  /\ IF "db" \notin DOMAIN resp
     THEN IF get_neo4j(driver).raised
          THEN Respond(get_backpath(driver, NoResp), <<>>)
          ELSE /\ resp' = [op |-> "request", call |-> resp.call, args |-> resp.args, db |-> driver]
               /\ UNCHANGED <<driver, inits, nodes, edges, boot>>
     ELSE \E sub \in Traverse(resp.db, Graph, Str(_code_to_id(resp.args.code)), REQUIRES, DefaultDepth) :
            Respond(get_backpath(resp.db, sub), <<sub>>)

\* get_frontpath, likewise
GetFrontpath ==
  /\ Requested("get_frontpath")
  /\ IF "db" \notin DOMAIN resp
     THEN IF get_neo4j(driver).raised
          THEN Respond(get_frontpath(driver, NoResp), <<>>)
          ELSE /\ resp' = [op |-> "request", call |-> resp.call, args |-> resp.args, db |-> driver]
               /\ UNCHANGED <<driver, inits, nodes, edges, boot>>
     ELSE \E sub \in Traverse(resp.db, Graph, Str(_code_to_id(resp.args.code)), UNLOCKS, DefaultDepth) :
            Respond(get_frontpath(resp.db, sub), <<sub>>)

\* the handler of courses_by_plans is in its loop: resp.db is the driver
\* get_neo4j() gave it, resp.ids are the ids not yet traversed and resp.subs
\* what the traversals so far returned
InLoop == "ids" \in DOMAIN resp

\* sub = await collect_graph_for_id(driver, cid, ...) for the next id, with
\* the driver the handler took, on the store as it is now; after the last id
\* the response is put together
AwaitCollect(db, plans, ids, subs) ==
  \E sub \in Traverse(db, Graph, Head(ids), REQUIRES, DefaultDepth) :
    IF Len(ids) = 1
    THEN Respond(courses_by_plans(db, plans, Append(subs, sub)), Append(subs, sub))
    ELSE /\ resp' = [op |-> "request", call |-> resp.call, args |-> resp.args,
                     subs |-> Append(subs, sub), db |-> db, ids |-> Tail(ids)]
         /\ UNCHANGED <<driver, inits, nodes, edges, boot>>

\* courses_by_plans up to the first await of its loop, where it has taken the
\* driver and called collect_graph_for_id for the first id, or to its end
CoursesByPlansBegin ==
  /\ Requested("courses_by_plans")
  /\ ~InLoop
  /\ IF BeforeLoop(driver, resp.args.plans)
     THEN Respond(courses_by_plans(driver, resp.args.plans, <<>>), <<>>)
     ELSE /\ resp' = [op |-> "request", call |-> resp.call, args |-> resp.args, subs |-> <<>>,
                      db |-> driver, ids |-> PlanIds(resp.args.plans)]
          /\ UNCHANGED <<driver, inits, nodes, edges, boot>>

\* courses_by_plans from one await of its loop to the next, or to its end
CoursesByPlansLoop ==
  /\ Requested("courses_by_plans")
  /\ InLoop
  /\ AwaitCollect(resp.db, resp.args.plans, resp.ids, resp.subs)

CoursesByPlans == CoursesByPlansBegin \/ CoursesByPlansLoop

\* the store is filled by calls the ingestion makes for the courses of
\* QueryIds: a course has the courses before it in QueryOrder as its
\* prerequisites, the first one has the last one as its antirequisite, and
\* the first one is upserted with a title
QueryOrder == <<_course_pk("CS", "484"), _course_pk("MATH", "239"), _course_pk("CS", "486")>>
FillPrereqCalls ==
  {Prereq(QueryOrder[j], QueryOrder[i], GroupId(QueryOrder[j], gi)) :
     i \in 1..2, j \in 2..3, gi \in 1..MaxGroups}
FillCalls ==
  {m \in FillPrereqCalls : m.to_id # m.from_id}
    \cup {Antireq(QueryOrder[1], QueryOrder[3])}
    \cup {Upsert(QueryOrder[1], CodeOf("CS", "484"), "Topics", None)}
\* one of these calls, made by the ingestion with the driver it holds, commits
Fill ==
  \E m \in FillCalls :
    /\ resp.op # "response"
    /\ LET G == Apply(m, Graph)
       IN  /\ nodes' = G.nodes
           /\ edges' = G.edges
    /\ resp' = Note([op |-> m.op, raised |-> FALSE])
    /\ UNCHANGED <<driver, inits, boot>>

NextQuery ==
  \/ resp.op # "response" /\ InitNeo4j
  \/ resp.op # "response" /\ CloseNeo4j
  \/ Fill
  \/ CallCollect
  \/ RequestBackpath
  \/ RequestFrontpath
  \/ RequestByPlans
  \/ CollectGraphForId
  \/ GetBackpath
  \/ GetFrontpath
  \/ CoursesByPlans
  \/ Deliver

SpecQuery == Init /\ [][NextQuery]_vars

(***************************************************************************)
(* Traversals of graphs with more OR-groups, where a query matches more    *)
(* paths than LIMIT returns.                                               *)
(***************************************************************************)
\* the first course is its own prerequisite in up to QueryGroups groups; the
\* other prerequisites are in the first group of their course
QueryPrereqCalls ==
  {m \in {Prereq(to, from, GroupId(to, gi)) : to \in Ids, from \in Ids, gi \in 1..QueryGroups} :
     \/ m.group_id = GroupId(m.to_id, 1)
     \/ m.to_id = QueryOrder[1] /\ m.from_id = QueryOrder[1]}
\* what is kept of a first call once the store has changed: nothing, the two
\* calls did not run on the same graph
Stale == [nodes |-> {}, ok |-> FALSE, links |-> {}, same |-> FALSE]

\* A merge_prereq_edge of the ingestion commits.  Between two calls of
\* collect_graph_for_id that a caller compares, resp.first.same tells whether
\* the store is still the one the first call ran on.
FillGroups ==
  \E m \in QueryPrereqCalls :
    /\ resp.op # "response"
    /\ LET G == Apply(m, Graph)
       IN  /\ nodes' = G.nodes
           /\ edges' = G.edges
           /\ resp' = IF resp.op # "request" THEN [op |-> m.op, raised |-> FALSE]
                      ELSE IF "first" \in DOMAIN resp /\ G # Graph
                           THEN [resp EXCEPT !.first = Stale]
                           ELSE resp
    /\ UNCHANGED <<driver, inits, boot>>

\* a caller takes the shared driver and calls collect_graph_for_id with it
CallTraverse ==
  \E id \in Ids, rt \in {REQUIRES, UNLOCKS}, d \in Depths :
    /\ NoRequest
    /\ resp' = [op |-> "request", call |-> "collect_graph_for_id",
                args |-> [depth |-> d, rel_type |-> rt, id_value |-> id], db |-> driver]
    /\ UNCHANGED <<driver, inits, nodes, edges, boot>>

\* the query of the caller's first call of collect_graph_for_id runs: the ids
\* of the nodes and the tuples of the links the call returned are kept as
\* resp.first, and the caller calls again with the same arguments, the driver
\* it holds among them
CollectGraphForIdFirst ==
  /\ Requested("collect_graph_for_id")
  /\ "first" \notin DOMAIN resp
  /\ \E first \in {[nodes |-> NodeIds(r.graph), ok |-> r.ok, links |-> LinkKeys(r.graph), same |-> TRUE] :
                      r \in Traverse(resp.db, Graph, resp.args.id_value, resp.args.rel_type, resp.args.depth)} :
       resp' = [op |-> "request", call |-> resp.call, args |-> resp.args, first |-> first,
                db |-> resp.db]
  /\ UNCHANGED <<driver, inits, nodes, edges, boot>>

\* the query of the caller's second call runs, on the store as it is by then
CollectGraphForIdSecond ==
  /\ Requested("collect_graph_for_id")
  /\ "first" \in DOMAIN resp
  /\ \E sub \in Traverse(resp.db, Graph, resp.args.id_value, resp.args.rel_type, resp.args.depth) :
       resp' = [op |-> "response", call |-> resp.call, args |-> resp.args, first |-> resp.first,
                status |-> 0, answered |-> sub.ok, body |-> sub.graph, subs |-> <<sub>>]
  /\ UNCHANGED <<driver, inits, nodes, edges, boot>>

NextTraverse ==
  \/ resp.op # "response" /\ InitNeo4j
  \/ FillGroups
  \/ CallTraverse
  \/ CollectGraphForIdFirst
  \/ CollectGraphForIdSecond
  \/ Deliver

SpecTraverse == Init /\ [][NextTraverse]_vars

(***************************************************************************)
(* Requirement texts: app/db/requirements_parsing.py.  A text is a str, a  *)
(* sequence of characters.                                                 *)
(***************************************************************************)
Digits == <<"0", "1", "2", "3", "4", "5", "6", "7", "8", "9">>
InSeq(c, seq) == \E i \in 1..Len(seq) : seq[i] = c
\* [A-Z]
IsUpper(c) == InSeq(c, UpperCase)
\* \d
IsDigit(c) == InSeq(c, Digits)
\* \s
IsSpace(c) == c = " "
\* \w
IsWord(c) == InSeq(c, UpperCase) \/ InSeq(c, Lower) \/ InSeq(c, Digits) \/ c = "_"
\* \b at the gap before position i: a word character on exactly one side
Boundary(s, i) ==
  LET before == i > 1 /\ IsWord(s[i - 1])
      after == i <= Len(s) /\ IsWord(s[i])
  IN  before # after

\* c.lower() for one character, s.lower()
LowerChar(c) ==
  IF \E i \in 1..Len(UpperCase) : UpperCase[i] = c
  THEN Lower[CHOOSE i \in 1..Len(UpperCase) : UpperCase[i] = c]
  ELSE c
str_lower(a) == [i \in 1..Len(a) |-> LowerChar(a[i])]

\* The ways COURSE_CODE_RE = \b([A-Z]{2,4})\s*(\d{2,3}[A-Z]?)\b matches at
\* position i: <<k, w, d, o>> for k letters, w whitespace characters, d digits
\* and o letters after them.
CodeMatches(s, i) ==
  IF i > Len(s) \/ ~IsUpper(s[i]) THEN {}
  ELSE {m \in (2..4) \X (0..(Len(s) - i)) \X (2..3) \X (0..1) :
          LET e == i + m[1] + m[2] + m[3] + m[4]
          IN  /\ e - 1 <= Len(s)
              /\ Boundary(s, i)
              /\ \A j \in i..(i + m[1] - 1) : IsUpper(s[j])
              /\ \A j \in (i + m[1])..(i + m[1] + m[2] - 1) : IsSpace(s[j])
              /\ \A j \in (i + m[1] + m[2])..(i + m[1] + m[2] + m[3] - 1) : IsDigit(s[j])
              /\ m[4] = 1 => IsUpper(s[e - 1])
              /\ Boundary(s, e)}

\* every quantifier of COURSE_CODE_RE is greedy: of the ways to match, the
\* engine finds the one that takes the most at the earliest quantifier
Greedier(m, n) ==
  \/ m = n
  \/ \E p \in 1..4 : m[p] > n[p] /\ \A q \in 1..(p - 1) : m[q] = n[q]
Greedy(M) == CHOOSE m \in M : \A n \in M : Greedier(m, n)

\* COURSE_CODE_RE.findall from position i on, each match as f"{a} {b}"
RECURSIVE FindCodes(_, _)
FindCodes(s, i) ==
  IF i > Len(s) THEN <<>>
  ELSE LET M == CodeMatches(s, i)
       IN  IF M = {} THEN FindCodes(s, i + 1)
           ELSE LET m == Greedy(M)
                    a == SubSeq(s, i, i + m[1] - 1)
                    b == SubSeq(s, i + m[1] + m[2], i + m[1] + m[2] + m[3] + m[4] - 1)
                IN  <<a \o <<" ">> \o b>> \o FindCodes(s, i + m[1] + m[2] + m[3] + m[4])

\* requirements_parsing._codes_in
_codes_in(text) == FindCodes(text, 1)

\* bootstrap._id_from_code on a code of _codes_in
IdOfCode(code) == LET parts == str_split(code) IN _id_from_code(<<Str(parts[1]), Str(parts[2])>>)

Max(a, b) == IF a >= b THEN a ELSE b

\* the loop of _split_and_top_level over the tokens
RECURSIVE SplitAnd(_, _, _, _)
SplitAnd(tokens, out, buf, depth) ==
  IF tokens = <<>>
  THEN IF buf # <<>> THEN Append(out, str_strip(str_join(<<" ">>, buf))) ELSE out
  ELSE LET tok == Head(tokens)
           d == IF tok = <<"(">> THEN depth + 1
                ELSE IF tok = <<")">> THEN Max(0, depth - 1)
                ELSE depth
       IN  IF d = 0 /\ str_lower(tok) = <<"a", "n", "d">>
           THEN SplitAnd(Tail(tokens), Append(out, str_strip(str_join(<<" ">>, buf))), <<>>, d)
           ELSE SplitAnd(Tail(tokens), out, Append(buf, tok), d)

\* requirements_parsing._split_and_top_level
_split_and_top_level(s) == SplitAnd(str_split(s), <<>>, <<>>, 0)

\* a literal of a pattern at position i, under re.I
LiteralAt(s, i, lit) ==
  /\ i + Len(lit) - 1 <= Len(s)
  /\ \A j \in 1..Len(lit) : LowerChar(s[i + j - 1]) = LowerChar(lit[j])

\* the number of whitespace characters from position i on
SpaceRun(s, i) ==
  CHOOSE n \in 0..(Len(s) + 1 - i) :
    /\ \A j \in i..(i + n - 1) : IsSpace(s[j])
    /\ i + n > Len(s) \/ ~IsSpace(s[i + n])

\* the length of the match of \s+or\s+|,|/ at position i under re.I; 0 if none
OrMatchLen(s, i) ==
  IF s[i] \in {",", "/"} THEN 1
  ELSE LET w1 == SpaceRun(s, i)
           w2 == SpaceRun(s, i + w1 + 2)
       IN  IF w1 >= 1 /\ LiteralAt(s, i + w1, <<"o", "r">>) /\ w2 >= 1
           THEN w1 + 2 + w2 ELSE 0

\* re.split: the pieces between the matches, from position start on
RECURSIVE SplitOr(_, _, _)
SplitOr(s, i, start) ==
  IF i > Len(s) THEN <<SubSeq(s, start, Len(s))>>
  ELSE LET n == OrMatchLen(s, i)
       IN  IF n = 0 THEN SplitOr(s, i + 1, start)
           ELSE <<SubSeq(s, start, i - 1)>> \o SplitOr(s, i + n, i + n)

\* requirements_parsing._split_or_any
_split_or_any(s) ==
  LET parts == SplitOr(s, 1, 1)
  IN  SelectSeq([p \in 1..Len(parts) |-> str_strip(parts[p])], LAMBDA p : p # <<>>)

\* re.search(label \s* (.*?) (?=stop|stop|$)).group(1).strip(), "" without a
\* match: the span from the first occurrence of the label to the first stop
\* after it, or to the end of the text
LabeledSpan(txt, label, stops) ==
  LET at == {i \in 1..Len(txt) : LiteralAt(txt, i, label)}
  IN  IF at = {} THEN <<>>
      ELSE LET i == CHOOSE x \in at : \A y \in at : x <= y
               from == i + Len(label) + SpaceRun(txt, i + Len(label))
               ends == {e \in from..(Len(txt) + 1) :
                          e = Len(txt) + 1 \/ \E stop \in stops : LiteralAt(txt, e, stop)}
               end == CHOOSE x \in ends : \A y \in ends : x <= y
           IN  str_strip(SubSeq(txt, from, end - 1))

PrereqLabel == <<"P", "r", "e", "r", "e", "q", ":">>
AntireqLabel == <<"A", "n", "t", "i", "r", "e", "q", ":">>
CoreqLabel == <<"C", "o", "r", "e", "q", ":">>

\* the codes of one AND part: those of its OR chunks, or those of the whole
\* part if the chunks hold none; sorted(set(codes))
RECURSIVE ChunkCodes(_)
ChunkCodes(or_parts) ==
  IF or_parts = <<>> THEN <<>> ELSE _codes_in(Head(or_parts)) \o ChunkCodes(Tail(or_parts))
PartCodes(part) ==
  LET codes == ChunkCodes(_split_or_any(part))
  IN  SortedSet(IF codes = <<>> THEN _codes_in(part) ELSE codes)

\* requirements_parsing.extract_constraints
extract_constraints(requirements_description) ==
  LET txt == str_strip(requirements_description)
      pre == LabeledSpan(txt, PrereqLabel, {AntireqLabel, CoreqLabel})
      anti == LabeledSpan(txt, AntireqLabel, {PrereqLabel, CoreqLabel})
      and_parts == IF pre = <<>> THEN <<>> ELSE _split_and_top_level(pre)
  IN  [prereq_groups |-> SelectSeq([p \in 1..Len(and_parts) |-> PartCodes(and_parts[p])],
                                   LAMBDA codes : codes # <<>>),
       antireqs |-> SortedSet(_codes_in(anti))]

(***************************************************************************)
(* Codes and texts handed to the conversions and to the parser.            *)
(***************************************************************************)
\* subjects and catalog numbers of well-formed codes
CourseSubjects == {<<"C", "S">>,
                   <<"S", "E">>,
                   <<"E", "C", "E">>,
                   <<"M", "A", "T", "H">>}
CourseNumbers == {<<"4", "8", "2">>,
                  <<"1", "3", "5">>,
                  <<"9", "7">>,
                  <<"1", "3", "6", "L">>}
\* what stands between the subject and the number of a written code
Separators == {<<>>, <<" ">>, <<"-">>, <<" ", " ">>}
WrittenCode(subject, sep, number) == subject \o sep \o number

\* the id -> code direction: tgt.replace("-", " ") in get_course
IdToCode(id) == str_replace(id, "-", " ")

\* the parser scenario
Scenario == <<"P", "r", "e", "r", "e", "q", ":", " ", "C", "S", " ", "1", "3", "5", ";", " ", "o", "n", "e", " ", "o", "f", " ", "M", "A", "T", "H", " ", "1", "3", "5", ",", " ", "M", "A", "T", "H", " ", "1", "3", "7", ".", " ", "A", "n", "t", "i", "r", "e", "q", ":", " ", "C", "S", " ", "1", "4", "5">>

\* requirement texts: two clauses joined by a connective, with or without
\* an Antireq span
Clauses == {<<"C", "S", " ", "1", "3", "5">>,
            <<"M", "A", "T", "H", " ", "1", "3", "7">>,
            <<"C", "S", "1", "3", "6">>,
            <<"o", "n", "e", " ", "o", "f", " ", "M", "A", "T", "H", " ", "1", "3", "5">>}
Connectives == {<<" ", "a", "n", "d", " ">>,
                <<" ", "o", "r", " ">>,
                <<",", " ">>,
                <<"/">>,
                <<";", " ">>}
Tails == {<<>>,
          <<".", " ", "A", "n", "t", "i", "r", "e", "q", ":", " ", "C", "S", " ", "1", "4", "5">>,
          <<" ", "C", "o", "r", "e", "q", ":", " ", "C", "S", " ", "1", "3", "6", ".", " ", "A", "n", "t", "i", "r", "e", "q", ":", " ", "C", "S", " ", "1", "4", "5", ",", " ", "C", "S", " ", "1", "4", "5">>}
RequirementTexts ==
  {Scenario} \cup {PrereqLabel \o <<" ">> \o a \o c \o b \o t :
                     a \in Clauses, c \in Connectives, b \in Clauses, t \in Tails}

\* prerequisite spans as token sequences
SpanTokens == {<<"(">>,
               <<")">>,
               <<"(", "C", "S">>,
               <<"1", "3", "5">>,
               <<"1", "3", "6", ")">>,
               <<"a", "n", "d">>,
               <<"A", "N", "D">>,
               <<"o", "r">>}
MaxTokens == 3
RECURSIVE TokenSeqs(_)
TokenSeqs(n) ==
  IF n = 0 THEN {<<>>}
  ELSE LET shorter == TokenSeqs(n - 1)
       IN  shorter \cup {Append(s, t) : s \in {x \in shorter : Len(x) = n - 1}, t \in SpanTokens}
\* a group with the parentheses attached to its words
GroupedSpan == <<"(", "C", "S", " ", "1", "3", "5", " ", "a", "n", "d", " ", "C", "S", " ", "1", "3", "6", ")">>
Spans == {GroupedSpan} \cup {str_join(<<" ">>, s) : s \in TokenSeqs(MaxTokens) \ {<<>>}}

\* the plan definitions _expand_plan_to_codes is called with: those of _PLANS,
\* the dict without a key, one without a list of courses and two that have
\* some of the lists, with codes written in other ways
PlanDefs ==
  [d \in DOMAIN _PLANS \cup {"empty", "name only", "science", "electives"} |->
     IF d \in DOMAIN _PLANS THEN _PLANS[d]
     ELSE IF d = "empty" THEN EmptyDict
     ELSE IF d = "name only" THEN [name |-> d]
     ELSE IF d = "science"
     THEN [required_courses |-> << <<"C", "S", " ", "1", "0", "0">> >>,
           natural_science |-> [courses |-> << <<"C", "S", "4", "8", "2">> >>]]
     ELSE [required_courses |-> << <<"C", "S", " ", "1", "0", "0">> >>,
           technical_electives |-> [list2 |-> << <<"c", "s", "-", "4", "8", "6">> >>],
           sustainability_options |-> << <<"M", "T", "E", " ", "1", "2", "1">>,
                                         <<"C", "S", " ", "1", "0", "0">> >>]]

\* the calls of the conversions and of the parser, one per argument
TextCalls ==
  {[op |-> "call", call |-> "_code_to_id", args |-> a] :
     a \in CourseSubjects \X Separators \X CourseNumbers}
  \cup {[op |-> "call", call |-> "extract_constraints", args |-> req] : req \in RequirementTexts}
  \cup {[op |-> "call", call |-> "_split_and_top_level", args |-> s] : s \in Spans}
  \cup {[op |-> "call", call |-> "_expand_plan_to_codes", args |-> d] : d \in DOMAIN PlanDefs}

InitText ==
  /\ driver = "None"
  /\ inits = 0
  /\ nodes = <<>>
  /\ edges = EmptyBag
  /\ boot = Idle
  /\ resp \in TextCalls

Called(call) == resp.op = "call" /\ resp.call = call

\* a boundary computes the id of a written code; the Graph Builder's id of the
\* same course is _course_pk of its record, and _id_from_code of the code
\* _codes_in finds in a text
CodeToId ==
  /\ Called("_code_to_id")
  /\ LET code == WrittenCode(resp.args[1], resp.args[2], resp.args[3])
         found == _codes_in(code)
     IN  resp' = [code |-> code, id |-> _code_to_id(code), op |-> "_code_to_id",
                  record_id |-> _course_pk(Str(resp.args[1]), Str(resp.args[3])),
                  text_ids |-> [i \in 1..Len(found) |-> IdOfCode(found[i])]]
  /\ UNCHANGED <<driver, inits, nodes, edges, boot>>

ExtractConstraints ==
  /\ Called("extract_constraints")
  /\ resp' = [op |-> "extract_constraints", text |-> resp.args,
              parsed |-> extract_constraints(resp.args)]
  /\ UNCHANGED <<driver, inits, nodes, edges, boot>>

SplitAndTopLevel ==
  /\ Called("_split_and_top_level")
  /\ resp' = [op |-> "_split_and_top_level", text |-> resp.args,
              out |-> _split_and_top_level(resp.args)]
  /\ UNCHANGED <<driver, inits, nodes, edges, boot>>

\* the codes of a plan definition, and the ids courses_by_plans makes of them
ExpandPlanToCodes ==
  /\ Called("_expand_plan_to_codes")
  /\ \E codes \in {_expand_plan_to_codes(PlanDefs[resp.args])} :
       resp' = [op |-> "_expand_plan_to_codes", codes |-> codes,
                ids |-> [i \in 1..Len(codes) |-> Str(_code_to_id(codes[i]))],
                plan |-> resp.args]
  /\ UNCHANGED <<driver, inits, nodes, edges, boot>>

NextText ==
  \/ CodeToId
  \/ ExtractConstraints
  \/ SplitAndTopLevel
  \/ ExpandPlanToCodes

SpecText == InitText /\ [][NextText]_vars

(***************************************************************************)
(* Properties of the graph mutations.                                      *)
(***************************************************************************)
RelsOf(type) == {r \in BagToSet(edges) : r[3] = type}
Inverse(r) == Rel(r[2], r[1], IF r[3] = "REQUIRES" THEN "UNLOCKS" ELSE "REQUIRES", r[4])

\* C1: every REQUIRES edge (to -> from, g) has exactly one UNLOCKS edge
\* (from -> to, g) and every UNLOCKS edge exactly one REQUIRES edge, in every
\* state of the store that any sequence of mutation calls, failed ones
\* included, can leave.
C1_InverseInvariant ==
  \A r \in RelsOf("REQUIRES") \cup RelsOf("UNLOCKS") :
    /\ CopiesIn(r, edges) = 1
    /\ CopiesIn(Inverse(r), edges) = 1

\* a merge_prereq_edge call has committed on top of an earlier one, after
\* _driver was set to None while the call was in flight, and the store holds
\* two pairs of edges
C1_Witness ==
  /\ resp.op = "merge_prereq_edge"
  /\ ~resp.raised
  /\ driver = "None"
  /\ Cardinality(RelsOf("REQUIRES")) >= 2
  /\ Cardinality(RelsOf("UNLOCKS")) >= 2

\* C2: whenever an ANTIREQ edge a -> b is in the store, so is b -> a, in every
\* state: between two backend calls of bootstrap_from_parsed_records and
\* after a failed one too.
C2_AntireqSymmetric ==
  \A r \in RelsOf("ANTIREQ") : BagIn(Rel(r[2], r[1], "ANTIREQ", None), edges)

\* C3: applying a mutation twice in a row gives the nodes, attributes and
\* edges that applying it once gives, on every reachable graph; merging an
\* edge whose tuple is in the store adds no edge.
C3_Idempotent ==
  \A m \in Mutations :
    /\ Apply(m, Apply(m, Graph)) = Apply(m, Graph)
    /\ m.op = "merge_prereq_edge"
         /\ BagIn(Rel(m.to_id, m.from_id, "REQUIRES", m.group_id), edges)
         /\ BagIn(Rel(m.from_id, m.to_id, "UNLOCKS", m.group_id), edges)
       => Apply(m, Graph).edges = edges
    /\ m.op = "merge_antireq_edge" /\ BagIn(Rel(m.a_id, m.b_id, "ANTIREQ", None), edges)
       => Apply(m, Graph).edges = edges

\* a merge has just been applied to a store that holds upserted nodes and
\* both kinds of edges, and applying it again changes nothing
C3_Witness ==
  /\ resp.op \in {"merge_prereq_edge", "merge_antireq_edge"}
  /\ ~resp.raised
  /\ RelsOf("REQUIRES") # {}
  /\ RelsOf("ANTIREQ") # {}
  /\ \E id \in DOMAIN nodes : nodes[id].title \in Titles
  /\ \E m \in Mutations : m.op = resp.op /\ Apply(m, Graph) = Graph

AllCallsMade == boot.pc \in {"any order", "done"} /\ boot.left = {}

\* the graph the order of the code builds from the empty store
CodeOrderGraph == ApplyAll(boot.calls, EmptyGraph)

\* two upsert_course_node calls of the batch give one id different attributes
ConflictingUpserts ==
  \E i, j \in 1..Len(boot.calls) :
    /\ boot.calls[i].op = "upsert_course_node"
    /\ boot.calls[j].op = "upsert_course_node"
    /\ boot.calls[i].id = boot.calls[j].id
    /\ boot.calls[i] # boot.calls[j]

\* C4 as stated: whatever the batch, every order of its node upserts and edge
\* merges ends in the graph (nodes, attributes, edges) that the order of the
\* code ends in.
C4_AnyOrderSameGraph == AllCallsMade => Graph = CodeOrderGraph

\* C4, amended: for every batch in which the records of one course id carry
\* the same code and title, every order of its node upserts and edge merges
\* ends in the graph that the order of the code ends in.
C4_AnyOrderSameGraphNoConflict ==
  AllCallsMade /\ ~ConflictingUpserts => Graph = CodeOrderGraph

\* all calls of a batch without conflicting upserts are made: two courses
\* upserted, one of them re-upserted with the same attributes or not at all,
\* with prerequisite and antirequisite edges between them
C4_Witness ==
  /\ AllCallsMade
  /\ ~ConflictingUpserts
  /\ Len(boot.calls) >= 5
  /\ \A id \in Ids : id \in DOMAIN nodes /\ nodes[id].title \in Titles
  /\ RelsOf("REQUIRES") # {}
  /\ RelsOf("ANTIREQ") # {}

(***************************************************************************)
(* Properties of the traversal and of the query endpoints.                 *)
(***************************************************************************)
Response(call) == resp.op = "response" /\ resp.call = call

\* the nodes within k hops of id along relationships of type rel
RECURSIVE ReachWithin(_, _, _, _)
ReachWithin(G, rel, id, k) ==
  IF k <= 0 THEN {id}
  ELSE LET S == ReachWithin(G, rel, id, k - 1)
       IN  S \cup {e[2] : e \in {x \in BagToSet(G.edges) : x[3] = rel /\ x[1] \in S}}

\* the edges on some directed path of 1..d hops from id, and the nodes on one
OnPathEdges(G, rel, id, d) ==
  IF id \notin DOMAIN G.nodes THEN {}
  ELSE {x \in BagToSet(G.edges) : x[3] = rel /\ x[1] \in ReachWithin(G, rel, id, d - 1)}
OnPathNodes(G, rel, id, d) ==
  IF OnPathEdges(G, rel, id, d) = {} THEN {}
  ELSE {id} \cup {e[2] : e \in OnPathEdges(G, rel, id, d)}

\* a call of collect_graph_for_id for REQUIRES or UNLOCKS has returned
Traversed == Response("collect_graph_for_id") /\ resp.args.rel_type \in {REQUIRES, UNLOCKS}
AskedRel == Str(resp.args.rel_type)

\* C5: a traversal that the backend answered returns every node and every
\* edge on some directed path of 1..d hops of the relation from the start.
C5_Complete ==
  (Traversed /\ resp.answered) =>
     /\ OnPathNodes(Graph, AskedRel, resp.args.id_value, resp.args.depth) \subseteq NodeIds(resp.body)
     /\ OnPathEdges(Graph, AskedRel, resp.args.id_value, resp.args.depth) \subseteq LinkKeys(resp.body)

\* C6: every node collect_graph_for_id returns for REQUIRES or UNLOCKS is the
\* start node or within d hops of it along that relation, every link it returns
\* has that relation as its type, and no link of type ANTIREQ is returned for
\* any rel_type string.
C6_Sound ==
  Response("collect_graph_for_id") =>
     /\ \A k \in LinkKeys(resp.body) : k[3] # "ANTIREQ"
     /\ resp.args.rel_type \in {REQUIRES, UNLOCKS} =>
          /\ NodeIds(resp.body) \subseteq ReachWithin(Graph, AskedRel, resp.args.id_value, resp.args.depth)
          /\ \A k \in LinkKeys(resp.body) : k[3] = AskedRel

\* rel_type "ANTIREQ" was passed for a start node that has an ANTIREQ edge, and
\* links were returned
C6_Witness ==
  /\ Response("collect_graph_for_id") /\ resp.answered
  /\ resp.args.rel_type = ANTIREQ
  /\ \E x \in BagToSet(edges) : x[3] = "ANTIREQ" /\ x[1] = resp.args.id_value
  /\ resp.body.links # <<>>

QueryCalls == {"collect_graph_for_id", "get_backpath", "get_frontpath", "courses_by_plans"}
\* status 0: collect_graph_for_id returned to its caller
Succeeded == resp.status \in {0, 200}

\* C7: when the backend could not answer, collect_graph_for_id and the query
\* endpoints report a failure; they do not return as a success.
C7_ExplicitFailure ==
  (resp.op = "response" /\ resp.call \in QueryCalls /\ ~resp.answered) => ~Succeeded

\* the start id and the relation of a traversal request
StartId ==
  IF resp.call = "collect_graph_for_id" THEN resp.args.id_value ELSE Str(_code_to_id(resp.args.code))
StartRel ==
  IF resp.call = "collect_graph_for_id" THEN AskedRel
  ELSE IF resp.call = "get_backpath" THEN "REQUIRES" ELSE "UNLOCKS"
TraversalAnswered ==
  /\ resp.op = "response" /\ resp.answered
  /\ \/ Traversed
     \/ resp.call \in {"get_backpath", "get_frontpath"}
NoWayOut ==
  \/ StartId \notin DOMAIN nodes
  \/ ~\E x \in BagToSet(edges) : x[3] = StartRel /\ x[1] = StartId

\* C8: with a working backend, a traversal from an id that is not a node, or
\* from a node without an outgoing edge of the relation, returns the empty
\* result and no error.
C8_EmptyNotError ==
  (TraversalAnswered /\ NoWayOut) => (Succeeded /\ resp.body = EmptyResult)

\* get_backpath has answered for a course that is a node without REQUIRES edges
C8_Witness ==
  /\ TraversalAnswered /\ resp.call = "get_backpath"
  /\ StartId \in DOMAIN nodes
  /\ \A x \in BagToSet(edges) : x[1] = StartId => x[3] # "REQUIRES"
  /\ resp.status = 200 /\ resp.body = EmptyResult

Perms(n) == {f \in [1..n -> 1..n] : \A i, j \in 1..n : f[i] = f[j] => i = j}

\* the start ids of courses_by_plans have been traversed and it has answered
Aggregated == Response("courses_by_plans") /\ resp.status = 200 /\ resp.subs # <<>>
\* the nodes and the links traversal i returned
SubNodes(i) == Range(resp.subs[i].graph.nodes)
SubLinks(i) == Range(resp.subs[i].graph.links)
\* the traversals returned the nodes they share with the same attributes
SubsAgree ==
  \A i, j \in 1..Len(resp.subs) :
    \A a \in SubNodes(i), b \in SubNodes(j) : a.id = b.id => a = b

\* C9 as stated: the nodes and the links courses_by_plans returns are exactly
\* the union of the nodes and the union of the links its traversals returned,
\* and iterating the start ids in any other order gives the same nodes and
\* the same links.
C9_UnionAnyOrder ==
  Aggregated =>
     LET n == Len(resp.subs)
     IN  /\ Range(resp.body.nodes) = UNION {SubNodes(i) : i \in 1..n}
         /\ Range(resp.body.links) = UNION {SubLinks(i) : i \in 1..n}
         /\ \A f \in Perms(n) :
              LET a == Aggregate([i \in 1..n |-> resp.subs[f[i]]], <<>>, <<>>)
              IN  /\ Range(a.nodes) = Range(resp.body.nodes)
                  /\ Range(a.links) = Range(resp.body.links)

\* C9 amended: courses_by_plans returns one node for each id some traversal
\* returned, and the links the traversals returned, each link once; a node is
\* returned as the last traversal that holds its id returned it; and when the
\* traversals agree on the nodes they share, the nodes are exactly the union
\* of the nodes of the traversals, and iterating the start ids in any other
\* order gives the same nodes and the same links.
C9_AggregateUnion ==
  Aggregated =>
     LET n == Len(resp.subs)
         Holds(i, nd) == nd.id \in NodeIds(resp.subs[i].graph)
     IN  /\ NodeIds(resp.body) = UNION {NodeIds(resp.subs[i].graph) : i \in 1..n}
         /\ Cardinality(NodeIds(resp.body)) = Len(resp.body.nodes)
         /\ Range(resp.body.links) = UNION {SubLinks(i) : i \in 1..n}
         /\ Cardinality(Range(resp.body.links)) = Len(resp.body.links)
         /\ \A nd \in Range(resp.body.nodes) :
              \E i \in 1..n : nd \in SubNodes(i) /\ \A j \in i + 1..n : ~Holds(j, nd)
         /\ SubsAgree =>
              /\ Range(resp.body.nodes) = UNION {SubNodes(i) : i \in 1..n}
              /\ \A f \in Perms(n) :
                   LET a == Aggregate([i \in 1..n |-> resp.subs[f[i]]], <<>>, <<>>)
                   IN  /\ Range(a.nodes) = Range(resp.body.nodes)
                       /\ Range(a.links) = Range(resp.body.links)

\* two of the traversals returned different sets of links that share a link,
\* and two of them returned one node with different titles, the response
\* holding the later one
C9_Witness ==
  /\ Aggregated
  /\ \E i, j \in 1..Len(resp.subs) :
        /\ SubLinks(i) # SubLinks(j)
        /\ SubLinks(i) \cap SubLinks(j) # {}
        /\ ~(SubLinks(i) \subseteq SubLinks(Len(resp.subs)))
  /\ \E i, j \in 1..Len(resp.subs) :
        /\ i < j
        /\ \E a \in SubNodes(i), b \in SubNodes(j) :
              a.id = b.id /\ a.title # b.title /\ b \in Range(resp.body.nodes)

NoKnownPlan == \A i \in 1..Len(resp.args.plans) : resp.args.plans[i] \notin DOMAIN _PLANS
EmptyAnswer == resp.status = 200 /\ resp.body.nodes = <<>> /\ resp.body.links = <<>>

\* C10 as stated: a request that names no plan, or only unknown plans, gets an
\* empty result and not an error.
C10_EmptyNotError == (Response("courses_by_plans") /\ NoKnownPlan) => EmptyAnswer

\* C10 amended: a request that names at least one plan, all of them unknown,
\* gets an empty result and not an error, with or without a driver; a request
\* that names no plan is rejected with status 400.
C10_UnknownPlansEmpty ==
  Response("courses_by_plans") =>
     /\ (resp.args.plans # <<>> /\ NoKnownPlan) => EmptyAnswer
     /\ resp.args.plans = <<>> => resp.status = 400

\* a request naming only unknown plans was answered while there was no driver
C10_Witness ==
  /\ Response("courses_by_plans") /\ resp.args.plans # <<>> /\ NoKnownPlan
  /\ driver = "None"
  /\ EmptyAnswer

\* C11: no result of collect_graph_for_id or of the aggregation of
\* courses_by_plans holds two nodes with one id or two links with one tuple
\* (start, end, type, group_id).
C11_NoDuplicates ==
  (resp.op = "response" /\ resp.call \in {"collect_graph_for_id", "courses_by_plans"} /\ Succeeded) =>
     /\ Cardinality(NodeIds(resp.body)) = Len(resp.body.nodes)
     /\ Cardinality(LinkKeys(resp.body)) = Len(resp.body.links)

\* an aggregation of two sub-results that share a node and a link, the node
\* lying on two paths of one of them
C11_Witness ==
  /\ Response("courses_by_plans") /\ resp.status = 200
  /\ \E i, j \in 1..Len(resp.subs) :
        /\ i < j
        /\ NodeIds(resp.subs[i].graph) \cap NodeIds(resp.subs[j].graph) # {}
        /\ LinkKeys(resp.subs[i].graph) \cap LinkKeys(resp.subs[j].graph) # {}
        /\ \E k1, k2 \in LinkKeys(resp.subs[i].graph) : k1 # k2 /\ k1[2] = k2[2]

Matched == Cardinality(QueryPaths(Graph, resp.args.id_value, resp.args.rel_type, resp.args.depth))

\* C12: a traversal that matches more paths than the cap of 200 is truncated
\* deterministically: two answered runs of collect_graph_for_id on the same
\* graph with the same arguments return the same nodes and the same links.
C12_Deterministic ==
  (Traversed /\ resp.answered /\ resp.first.ok /\ resp.first.same) =>
     \/ /\ NodeIds(resp.body) = resp.first.nodes
        /\ LinkKeys(resp.body) = resp.first.links
     \/ Matched <= PathLimit

(***************************************************************************)
(* Properties of the conversions and of the parser.                        *)
(***************************************************************************)
\* C13: for a well-formed code, written with or without a space, the id the
\* query side computes (_code_to_id) is the id under which the Graph Builder
\* stores the course (_course_pk of its record, _id_from_code of the code found
\* in a text), and id -> code -> id returns the id.
C13_SameId ==
  resp.op = "_code_to_id" =>
     /\ Str(resp.id) = resp.record_id
     /\ \A i \in 1..Len(resp.text_ids) : resp.text_ids[i] = Str(resp.id)
     /\ _code_to_id(IdToCode(resp.id)) = resp.id

\* C15: for the parser scenario extract_constraints returns the mandatory
\* prerequisite and the 'one of' list as two OR-groups, and the antirequisite.
C15_Scenario ==
  (resp.op = "extract_constraints" /\ resp.text = Scenario) =>
     resp.parsed = [prereq_groups |-> <<<<<<"C", "S", " ", "1", "3", "5">>>>,
                                        <<<<"M", "A", "T", "H", " ", "1", "3", "5">>,
                                          <<"M", "A", "T", "H", " ", "1", "3", "7">>>>>>,
                    antireqs |-> <<<<"C", "S", " ", "1", "4", "5">>>>]

\* the parentheses of a text: how many are open after its first n characters
ParenDepth(s, n) ==
  Cardinality({i \in 1..n : s[i] = "("}) - Cardinality({i \in 1..n : s[i] = ")"})
Balanced(s) == ParenDepth(s, Len(s)) = 0 /\ \A n \in 1..Len(s) : ParenDepth(s, n) >= 0

\* C16: the top-level AND split never splits inside a parenthesized group,
\* whether the parentheses stand alone or are attached to a word: every
\* segment of a span with balanced parentheses has balanced parentheses.
C16_NoSplitInside ==
  (resp.op = "_split_and_top_level" /\ Balanced(resp.text)) =>
     \A i \in 1..Len(resp.out) : Balanced(resp.out[i])

(***************************************************************************)
(* Further properties of the ingestion and of the mutations.               *)
(***************************************************************************)
\* C14: no REQUIRES or UNLOCKS edge of the store has one node at both ends,
\* also when the prerequisites of a record name the course of the record.
C14_NoSelfPrereq ==
  \A r \in BagToSet(edges) : r[3] \in {"REQUIRES", "UNLOCKS"} => r[1] # r[2]

(***************************************************************************)
(* Two ingestion workers.  Each runs the backend calls of its own batch    *)
(* through its own driver against the one store, which starts empty; a     *)
(* call is one transaction, and the transactions of the two workers        *)
(* interleave in any way.                                                  *)
(***************************************************************************)
Workers == 1..2
\* a worker's batch holds at most MaxWorkerRecords records
MaxWorkerRecords == 1
WorkerBatches == SeqsUpTo(Records, MaxWorkerRecords)

\* driver[w] is the driver of worker w
InitWorkers ==
  /\ driver = <<"open", "open">>
  /\ inits = 0
  /\ nodes = <<>>
  /\ edges = EmptyBag
  /\ \E b1 \in WorkerBatches, b2 \in WorkerBatches :
       boot = [pc |-> <<"run", "run">>, calls |-> <<BatchMutations(b1), BatchMutations(b2)>>,
               left |-> <<BatchMutations(b1), BatchMutations(b2)>>]
  /\ resp = NoResp

\* the next call of worker w: it commits, or it raises and the worker makes
\* no further call
WorkerCall(w, ok) ==
  /\ boot.pc[w] = "run"
  /\ boot.left[w] # <<>>
  /\ LET G == IF ok THEN Apply(Head(boot.left[w]), Graph) ELSE Graph
     IN  /\ nodes' = G.nodes
         /\ edges' = G.edges
  /\ boot' = [boot EXCEPT !.pc[w] = IF ok THEN "run" ELSE "failed", !.left[w] = Tail(@)]
  /\ resp' = [op |-> Head(boot.left[w]).op, raised |-> ~ok]
  /\ UNCHANGED <<driver, inits>>

\* finally of worker w: await driver.close()
WorkerFinally(w) ==
  /\ \/ boot.pc[w] = "run" /\ boot.left[w] = <<>>
     \/ boot.pc[w] = "failed"
  /\ driver' = [driver EXCEPT ![w] = "closed"]
  /\ boot' = [boot EXCEPT !.pc[w] = IF @ = "failed" THEN "raised" ELSE "done"]
  /\ resp' = [op |-> "bootstrap", step |-> "finally"]
  /\ UNCHANGED <<inits, nodes, edges>>

NextWorkers ==
  \/ \E w \in Workers, ok \in BOOLEAN : WorkerCall(w, ok)
  \/ \E w \in Workers : WorkerFinally(w)

SpecWorkers == InitWorkers /\ [][NextWorkers]_vars

\* every call of both workers is made and has committed
WorkersDone == \A w \in Workers : boot.left[w] = <<>> /\ boot.pc[w] \in {"run", "done"}

\* the calls of a list, each once, in the order of their first occurrence
RECURSIVE Distinct(_)
Distinct(calls) ==
  IF calls = <<>> THEN <<>>
  ELSE LET before == Distinct(SubSeq(calls, 1, Len(calls) - 1))
           last == calls[Len(calls)]
       IN  IF \E i \in 1..Len(before) : before[i] = last THEN before ELSE Append(before, last)

\* the graph of each distinct mutation of the two workers applied once
OnceEachGraph == ApplyAll(Distinct(boot.calls[1] \o boot.calls[2]), EmptyGraph)

NoDuplicateEdge == \A r \in BagToSet(edges) : CopiesIn(r, edges) = 1
EveryRequiresHasUnlocks ==
  \A r \in RelsOf("REQUIRES") : BagIn(Rel(r[2], r[1], "UNLOCKS", r[4]), edges)

\* the two workers upsert one id with different attributes
WorkersConflict ==
  \E m1 \in Range(boot.calls[1]), m2 \in Range(boot.calls[2]) :
    /\ m1.op = "upsert_course_node"
    /\ m2.op = "upsert_course_node"
    /\ m1.id = m2.id
    /\ m1 # m2

\* C17 as stated: every interleaving of the calls of two workers ends in the
\* graph of each distinct mutation applied once, with no duplicate edge and
\* with the UNLOCKS partner of every REQUIRES edge.
C17_WorkersSameGraph ==
  WorkersDone => /\ Graph = OnceEachGraph
                 /\ NoDuplicateEdge
                 /\ EveryRequiresHasUnlocks

\* C17, amended: in every state of every interleaving no edge is duplicated
\* and every REQUIRES edge has its UNLOCKS partner; at the end the graph is
\* that of each distinct mutation applied once, unless the workers upsert
\* one id with different attributes.
C17_WorkersConverge ==
     /\ NoDuplicateEdge
     /\ EveryRequiresHasUnlocks
     /\ WorkersDone /\ ~WorkersConflict => Graph = OnceEachGraph

\* both workers have made the same upsert_course_node and the same
\* merge_prereq_edge, and all their calls are made
C17_Witness ==
  /\ WorkersDone
  /\ \E m \in Range(boot.calls[1]) \cap Range(boot.calls[2]) : m.op = "upsert_course_node"
  /\ \E m \in Range(boot.calls[1]) \cap Range(boot.calls[2]) : m.op = "merge_prereq_edge"
  /\ RelsOf("REQUIRES") # {}

(***************************************************************************)
(* Repeated ingestion.  A course is ingested again, in the same process or *)
(* after a restart, with the requirements its text has then; the store     *)
(* keeps what earlier ingestions wrote.  The prerequisites are drawn from  *)
(* the other courses and one more.                                         *)
(***************************************************************************)
MemberOrder == CodeOrder \o <<<<"MATH", "239">>>>

\* sorted(set(codes)) for a set of these codes
RECURSIVE SortedMembers(_, _)
SortedMembers(S, i) ==
  IF i > Len(MemberOrder) THEN <<>>
  ELSE (IF MemberOrder[i] \in S THEN <<MemberOrder[i]>> ELSE <<>>) \o SortedMembers(S, i + 1)

\* the OR-groups a text of the course can hold: other courses only
GroupsOf(course) == {SortedMembers(S, 1) : S \in SUBSET (Range(MemberOrder) \ {course}) \ {{}}}

ReingestRecords ==
  UNION {[subject : {c[1]}, number : {c[2]}, title : Titles,
          prereq_groups : SeqsUpTo(GroupsOf(c), MaxGroups), antireqs : {<<>>}] : c \in Codes}

\* the OR-groups of a record as the backend is given them: group id and members
RecordGroups(r) ==
  {[group_id |-> GroupId(RecId(r), gi), members |-> {_id_from_code(c) : c \in Range(r.prereq_groups[gi])}] :
     gi \in 1..Len(r.prereq_groups)}

InitReingest ==
  /\ driver = "None"
  /\ inits = 0
  /\ nodes = <<>>
  /\ edges = EmptyBag
  /\ boot = [pc |-> "idle", pending |-> <<>>, shared |-> FALSE, ingested |-> {}]
  /\ resp = NoResp

\* bootstrap_from_parsed_records is not running
NotIngesting == boot.pc \in {"idle", "done", "raised"}

\* bootstrap_from_parsed_records on one record: driver = get_neo4j(), and the
\* calls are made one at a time by BootstrapCall, up to BootstrapFinally
IngestStart(r) ==
  /\ NotIngesting
  /\ driver # "None"
  /\ boot' = [boot EXCEPT !.pc = "run", !.pending = BatchMutations(<<r>>), !.shared = TRUE,
                          !.ingested = @ \cup RecordGroups(r)]
  /\ resp' = [op |-> "bootstrap", step |-> "start"]
  /\ UNCHANGED <<driver, inits, nodes, edges>>

\* get_neo4j() without a driver raises before anything is written
IngestNoDriver ==
  /\ NotIngesting
  /\ driver = "None"
  /\ boot' = [boot EXCEPT !.pc = "raised", !.pending = <<>>]
  /\ resp' = [op |-> "bootstrap", step |-> "get_neo4j raised"]
  /\ UNCHANGED <<driver, inits, nodes, edges>>

\* bootstrap_from_parsed_records, one await at a time
Ingest ==
  \/ \E r \in ReingestRecords : IngestStart(r)
  \/ IngestNoDriver
  \/ \E ok \in BOOLEAN : BootstrapCall(ok)
  \/ BootstrapFinally

\* the process is started again: _driver is None until init_neo4j has run,
\* and what the old process was doing is not done
Restart ==
  /\ driver # "None" \/ inits > 0 \/ ~NotIngesting
  /\ driver' = "None"
  /\ inits' = 0
  /\ boot' = [boot EXCEPT !.pc = "idle", !.pending = <<>>, !.shared = FALSE]
  /\ resp' = [op |-> "restart"]
  /\ UNCHANGED <<nodes, edges>>

NextReingest ==
  \/ InitNeo4j
  \/ Ingest
  \/ Restart

SpecReingest == InitReingest /\ [][NextReingest]_vars

\* the course a group id belongs to
CourseOfGroup(gid) == {id \in Ids : \E gi \in 1..MaxGroups : gid = GroupId(id, gi)}

\* C18: the REQUIRES edges that carry one group_id start at the course of the
\* group id, and their targets are members of one OR-group ingested under
\* that group id, never of two.
C18_GroupIdOneGroup ==
  \A r \in RelsOf("REQUIRES") :
     /\ r[1] \in CourseOfGroup(r[4])
     /\ \E g \in boot.ingested :
          /\ g.group_id = r[4]
          /\ {q[2] : q \in {e \in RelsOf("REQUIRES") : e[4] = r[4]}} \subseteq g.members

(***************************************************************************)
(* The attributes of the nodes under the mutations.                        *)
(***************************************************************************)
\* what a step does to the nodes.  The statement of the call in flight, whose
\* arguments are resp.args, has run: a merge of an edge leaves every node of
\* the store as it is and gives a node it creates its id as code and title;
\* an upsert that commits sets the code and the title of the node of its id
\* to those it was called with and leaves the other nodes.  Any other step
\* leaves the nodes.
C19_Step ==
  LET ran == resp.op = "request" /\ resp'.op # "request"
  IN  /\ (ran /\ resp'.op \in {"merge_prereq_edge", "merge_antireq_edge"}) =>
           /\ \A id \in DOMAIN nodes : id \in DOMAIN nodes' /\ nodes'[id] = nodes[id]
           /\ \A id \in DOMAIN nodes' \ DOMAIN nodes :
                nodes'[id].code = id /\ nodes'[id].title = id
      /\ (ran /\ resp'.op = "upsert_course_node") =>
           IF resp'.raised THEN nodes' = nodes
           ELSE /\ DOMAIN nodes' = DOMAIN nodes \cup {resp.args.id}
                /\ nodes'[resp.args.id].code = resp.args.code
                /\ nodes'[resp.args.id].title = resp.args.title
                /\ \A id \in DOMAIN nodes \ {resp.args.id} : nodes'[id] = nodes[id]
      /\ ~ran => nodes' = nodes

\* C19: after any sequence of mutations a node that was only created as the
\* end of an edge has its id as code and title, and an upserted node has the
\* code and title of its last upsert: every step of merge_prereq_edge and
\* merge_antireq_edge keeps the attributes of the nodes that exist, and only
\* upsert_course_node sets them.
C19_AttributesKept == [][C19_Step]_vars

\* an edge was merged last, and the store holds an edge between a node with
\* the title of an upsert and a node with its id as title
C19_Witness ==
  /\ resp.op \in {"merge_prereq_edge", "merge_antireq_edge"}
  /\ ~resp.raised
  /\ \E r \in BagToSet(edges) :
       /\ nodes[r[1]].title \in Titles
       /\ nodes[r[2]].title = r[2]

(***************************************************************************)
(* The driver that is not there.                                           *)
(***************************************************************************)
\* C20: in every state of the driver get_neo4j returns without raising (the
\* driver, or None): a request of get_backpath, get_frontpath or
\* courses_by_plans that finds no driver is refused with 503, and get_neo4j
\* has not raised.
C20_NoneThen503 ==
  (/\ resp.op = "response"
   /\ resp.call \in {"get_backpath", "get_frontpath", "courses_by_plans"}
   /\ driver = "None"
   /\ ~resp.answered) => /\ ~get_neo4j(driver).raised
                         /\ resp.status = 503

(***************************************************************************)
(* The process of app/main.py: startup connects the driver and starts      *)
(* run_data_loading as a background task, which runs                       *)
(* bootstrap_from_parsed_records on the scraped records; requests are      *)
(* served meanwhile and afterwards; shutdown closes the driver.            *)
(***************************************************************************)
\* the scraped batch holds at most MaxStartupRecords records
MaxStartupRecords == 1
StartupBatches == SeqsUpTo(Records, MaxStartupRecords)

\* requests are accepted once startup has returned and until shutdown
Serving == boot.server = "serving"

\* shutdown: await close_neo4j(); the requests in flight have been answered
Shutdown ==
  /\ Serving
  /\ NoRequest
  /\ driver' = "None"
  /\ boot' = [boot EXCEPT !.server = "down", !.shared = FALSE]
  /\ resp' = [op |-> "close_neo4j"]
  /\ UNCHANGED <<inits, nodes, edges>>

NextStartup ==
  \/ Startup
  \/ RunDataLoading(StartupBatches)
  \/ Serving /\ RequestBackpath
  \/ Serving /\ RequestFrontpath
  \/ GetBackpath
  \/ GetFrontpath
  \/ Deliver
  \/ Shutdown

SpecStartup == InitProcess /\ [][NextStartup]_vars

\* C21: the driver get_neo4j hands out is open, also after the background
\* task has finished bootstrap_from_parsed_records: a get_backpath or
\* get_frontpath served after it, on a course with edges of the relation in
\* the store, found an open driver and returns a graph that is not empty.
C21_DriverStaysOpen ==
  (/\ resp.op = "response"
   /\ resp.call \in {"get_backpath", "get_frontpath"}
   /\ boot.pc = "done"
   /\ ~get_neo4j(driver).raised
   /\ \E e \in BagToSet(edges) : e[1] = StartId /\ e[3] = StartRel)
  => /\ get_neo4j(driver).value = "open"
     /\ resp.status = 200
     /\ resp.body.nodes # <<>>
====
